---- MODULE Spec2Model ----
(***************************************************************************)
(* Verification model of the LUT weight optimizer backend:                 *)
(*   - DistributionCache     (convexopt/types.go, package lut part)        *)
(*   - FileWatcher           (watcher/watcher.go)                          *)
(*   - optimize-stream       (optimizer/mode_analyzer.go, handlers part)   *)
(*   - BucketOptimizer       (optimizer/bucket_optimizer.go)               *)
(* Each subsystem has its own specification; the variables of the other    *)
(* subsystems stay at their idle value.                                    *)
(*                                                                         *)
(* Numbers: the Payout field of an outcome is an integer in cents          *)
(* (hundredths of a bet); float64 arithmetic is modelled by exact          *)
(* arithmetic on fractions of integers.                                    *)
(***************************************************************************)
EXTENDS Integers, Sequences, FiniteSets, TLC

\* ------------------------------------------------------------------------
\* Generic helpers
\* ------------------------------------------------------------------------

\* The absent value of a Go map lookup or a nil pointer.
Nil == [nil |-> TRUE]

RECURSIVE SumSeq(_)
SumSeq(s) == IF s = <<>> THEN 0 ELSE Head(s) + SumSeq(Tail(s))

RECURSIVE SetMax(_)
SetMax(S) ==
    LET x == CHOOSE y \in S : TRUE
    IN  IF S = {x} THEN x
        ELSE LET m == SetMax(S \ {x}) IN IF x > m THEN x ELSE m

RECURSIVE SortDesc(_)
SortDesc(S) ==
    IF S = {} THEN <<>>
    ELSE LET m == SetMax(S) IN <<m>> \o SortDesc(S \ {m})

Range(s) == {s[i] : i \in DOMAIN s}

\* ------------------------------------------------------------------------
\* DistributionCache
\* ------------------------------------------------------------------------

Modes == {"base"}

\* Bounds of the cache specification.
MaxCalls == 2
MaxInvalidations == 2

\* truncation of the sim_id list of one payout group
MaxSimIDs == 10

\* Lookup tables handed to the cache: no outcomes, zero total weight, and a
\* table with a loss, a duplicated payout and a top payout.
LutEmpty == <<>>
LutZeroWeight == <<[SimID |-> 1, Payout |-> 100, Weight |-> 0]>>
LutWins ==
    << [SimID |-> 1, Payout |-> 0,   Weight |-> 5],
       [SimID |-> 2, Payout |-> 150, Weight |-> 3],
       [SimID |-> 3, Payout |-> 150, Weight |-> 1],
       [SimID |-> 4, Payout |-> 500, Weight |-> 1] >>
CacheTables == {LutEmpty, LutZeroWeight, LutWins}

\* Bucket lists handed to the cache (RangeStart, RangeEnd in cents).
BucketsCoarse ==
    << [RangeStart |-> 0, RangeEnd |-> 0],
       [RangeStart |-> 1, RangeEnd |-> 500] >>
BucketsFine ==
    << [RangeStart |-> 0,   RangeEnd |-> 0],
       [RangeStart |-> 1,   RangeEnd |-> 200],
       [RangeStart |-> 200, RangeEnd |-> 500] >>
CacheBucketLists == {BucketsCoarse, BucketsFine}

VARIABLES
    cache,        \* c.cache: mode -> CachedDistribution or Nil
    generating,   \* c.generating: mode -> BOOLEAN
    tasks,        \* generations in flight (goroutines and direct callers)
    got,          \* value returned by the latest Get
    ncalls,       \* number of GenerateAsync / Generate calls made so far
    lastCall,     \* history: the latest GenerateAsync call and whether it launched
    epoch,        \* history: mode -> number of Invalidate calls returned
    origin,       \* history: mode -> epoch at which the storing generation started
    lastAsync,    \* history: mode -> arguments of the latest GenerateAsync call
    lastLaunch    \* history: mode -> arguments of the latest launched generation

cacheVars == <<cache, generating, tasks, got, ncalls, lastCall, epoch, origin,
               lastAsync, lastLaunch>>

VARIABLES
    enabled,      \* fw.enabled
    files,        \* fw.files: filename -> mode
    debounce,     \* fw.debounce, in seconds
    lastChange,   \* fw.lastChange: filename -> time of the last accepted event
    started,      \* Start has launched the worker loop
    now,          \* time.Now(), in seconds since construction
    reloads,      \* reload goroutines launched by handleEvent
    evlog,        \* history: write/create events on tracked files, as handled
    reloadCalls,  \* history: event number -> calls of onReload it caused
    running,      \* the worker loop run() has been launched and has not returned
    stopPc,       \* Stop: "idle", "wait" (in wg.Wait) or "returned"
    handled,      \* history: number of handleEvent calls
    failed        \* history: the events whose onReload returned an error, and when

watcherVars == <<enabled, files, debounce, lastChange, started, now, reloads,
                 evlog, reloadCalls, running, stopPc, handled, failed>>

VARIABLES
    hpc,          \* optimize-stream handler: "accept", "loop" or "done"
    rpc,          \* refiner goroutine: "idle", "iterate", "return", "done", "panic"
    spc,          \* stop-reading goroutine: "idle", "read" or "done"
    progressChan, \* buffered events of progressChan (iteration numbers)
    progressClosed, \* close(progressChan) has run
    stopClosed,   \* close(stopChan) has run
    resultChan,   \* buffered value of resultChan
    errChan,      \* buffered value of errChan
    iteration,    \* refiner: current iteration
    outcome,      \* refiner: what it returns ("", "result" or an error kind)
    sent,         \* messages written to the connection, in order
    inbox,        \* client messages not yet read by the server
    clientGone,   \* the client has closed the connection
    stopAt,       \* history: progress messages received when the client sent stop
    stopReadAt    \* history: progress messages written when close(stopChan) ran

streamVars == <<hpc, rpc, spc, progressChan, progressClosed, stopClosed, resultChan,
                errChan, iteration, outcome, sent, inbox, clientGone, stopAt,
                stopReadAt>>

VARIABLES
    optTable,     \* the lookup table handed to OptimizeTable
    optConfig,    \* o.config of the BucketOptimizer
    optResult,    \* what OptimizeTable returned, Nil before the call
    optLocals     \* history: local variables of OptimizeTable at its return

optVars == <<optTable, optConfig, optResult, optLocals>>

VARIABLES
    valBuckets,   \* the bucket list a caller hands to ValidateBuckets
    valResults    \* the errors its calls of ValidateBuckets returned, in order

valVars == <<valBuckets, valResults>>

VARIABLES
    stablePc,     \* reload goroutine: "top", "stat", "sleep", "reload" or "done"
    sinceStart,   \* waitForFileStable: time.Since(startTime), in ms
    lastSize,     \* waitForFileStable: lastSize
    stableCount,  \* waitForFileStable: stableCount
    polls         \* history: the sizes os.Stat returned and when

stableVars == <<stablePc, sinceStart, lastSize, stableCount, polls>>

VARIABLES
    thread,       \* goroutine -> the call it is in and its position
    mu,           \* holder of fw.mu, "" when free
    enabledMu,    \* fw.enabledMu: its writer ("" when none) and its readers
    fatal,        \* the runtime has ended the process with a fatal error
    lockCalls     \* number of calls begun

lockVars == <<thread, mu, enabledMu, fatal, lockCalls>>

VARIABLES
    anaTable,     \* the lookup table handed to AnalyzeTable
    anaTarget,    \* its targetRTP argument
    anaResult     \* what AnalyzeTable returned, Nil before the call

anaVars == <<anaTable, anaTarget, anaResult>>

vars == <<cacheVars, watcherVars, streamVars, optVars, valVars, stableVars, lockVars,
          anaVars>>

\* lut.TotalWeight()
TotalWeight(lut) == SumSeq([i \in DOMAIN lut |-> lut[i].Weight])

\* lut.MaxPayout()
MaxPayoutOf(lut) == SetMax({lut[i].Payout : i \in DOMAIN lut})

\* Generate, grouping: one item per distinct payout with the summed weight,
\* the number of outcomes and the first MaxSimIDs sim ids in table order.
GroupItem(lut, p) ==
    LET members == SelectSeq(lut, LAMBDA o : o.Payout = p)
        ids     == [i \in DOMAIN members |-> members[i].SimID]
    IN  [ Payout |-> p,
          Weight |-> SumSeq([i \in DOMAIN members |-> members[i].Weight]),
          Count  |-> Len(members),
          SimIDs |-> IF Len(ids) > MaxSimIDs THEN SubSeq(ids, 1, MaxSimIDs) ELSE ids ]

\* Generate, items sorted by payout descending.
DistributionItems(lut) ==
    LET sorted == SortDesc({lut[i].Payout : i \in DOMAIN lut})
    IN  [i \in DOMAIN sorted |-> GroupItem(lut, sorted[i])]

\* bucketKey: "%.2f-%.2f" of the two edges; on edges given in whole cents the
\* two printed numbers are the edges themselves.
bucketKey(rangeStart, rangeEnd) == <<rangeStart, rangeEnd>>

\* Generate: maxRangeEnd starts at 0.0 and takes the largest RangeEnd.
MaxRangeEnd(buckets) == SetMax({0} \cup {buckets[i].RangeEnd : i \in DOMAIN buckets})

\* Generate: membership test of one item in one bucket.
InBucket(item, bucket, maxRangeEnd) ==
    IF bucket.RangeStart = 0 /\ bucket.RangeEnd = 0
    THEN item.Payout = 0
    ELSE IF bucket.RangeEnd * 100 >= maxRangeEnd * 99
         THEN item.Payout >= bucket.RangeStart
         ELSE item.Payout >= bucket.RangeStart /\ item.Payout < bucket.RangeEnd

\* Generate: the ByBucket map; a later bucket with the same key overwrites.
ByBucketOf(items, buckets) ==
    LET keys == {bucketKey(buckets[i].RangeStart, buckets[i].RangeEnd) : i \in DOMAIN buckets}
        maxEnd == MaxRangeEnd(buckets)
        lastWith(k) == SetMax({i \in DOMAIN buckets :
                          bucketKey(buckets[i].RangeStart, buckets[i].RangeEnd) = k})
    IN  [k \in keys |->
            SelectSeq(items, LAMBDA it : InBucket(it, buckets[lastWith(k)], maxEnd))]

\* A forgotten "cached.Ready = true".
CachedDistributionNotReady(lut, buckets) ==
    [ Items       |-> DistributionItems(lut),
      ByBucket    |-> ByBucketOf(DistributionItems(lut), buckets),
      Buckets     |-> buckets,
      TotalWeight |-> TotalWeight(lut),
      MaxPayout   |-> MaxPayoutOf(lut),
      Ready       |-> FALSE ]

\* Generate: the entry stored for a table with outcomes and weight.
CachedDistribution(lut, buckets) ==
    [ Items       |-> DistributionItems(lut),
      ByBucket    |-> ByBucketOf(DistributionItems(lut), buckets),
      Buckets     |-> buckets,
      TotalWeight |-> TotalWeight(lut),
      MaxPayout   |-> MaxPayoutOf(lut),
      Ready       |-> TRUE ]

\* Generate: early return, nothing stored.
GenerateSkips(lut) == Len(lut) = 0 \/ TotalWeight(lut) = 0

\* A test-and-set that forgets the test.
StartGeneratingNoTest(g, mode) ==
    [ok |-> TRUE, generating |-> [g EXCEPT ![mode] = TRUE]]

\* StartGenerating under generatingMu: the returned flag and the new set.
StartGenerating(g, mode) ==
    IF g[mode] THEN [ok |-> FALSE, generating |-> g]
    ELSE [ok |-> TRUE, generating |-> [g EXCEPT ![mode] = TRUE]]

\* A FinishGenerating that leaves the mark.
FinishGeneratingForgotten(g, mode) == g

\* FinishGenerating under generatingMu.
FinishGeneratingSet(g, mode) == [g EXCEPT ![mode] = FALSE]

\* Get under the read lock.
Get(mode) == cache[mode]

\* An identifier for a new generation: the least one no generation in flight has.
FreeId == CHOOSE i \in 1..(MaxCalls + 1) :
              /\ \A t \in tasks : t.id # i
              /\ \A j \in 1..(i - 1) : \E t \in tasks : t.id = j

InFlight(mode) == {t \in tasks : t.mode = mode}
AsyncInFlight(mode) == {t \in tasks : t.mode = mode /\ t.async}

CacheInit ==
    /\ cache = [m \in Modes |-> Nil]
    /\ generating = [m \in Modes |-> FALSE]
    /\ tasks = {}
    /\ got = [mode |-> "", value |-> Nil]
    /\ ncalls = 0
    /\ lastCall = Nil
    /\ epoch = [m \in Modes |-> 0]
    /\ origin = [m \in Modes |-> 0]
    /\ lastAsync = [m \in Modes |-> Nil]
    /\ lastLaunch = [m \in Modes |-> Nil]

\* GenerateAsync(mode, lut, buckets): test-and-set, then "go func".
GenerateAsync(mode, lut, buckets) ==
    LET r == StartGenerating(generating, mode) IN
    /\ ncalls < MaxCalls
    /\ ncalls' = ncalls + 1
    /\ generating' = r.generating
    /\ tasks' = IF r.ok
                THEN tasks \cup {[id |-> FreeId, mode |-> mode, lut |-> lut,
                                  buckets |-> buckets, async |-> TRUE,
                                  pc |-> "generate", epoch |-> epoch[mode]]}
                ELSE tasks
    /\ lastCall' = [n |-> ncalls + 1, mode |-> mode, launched |-> r.ok]
    /\ lastAsync' = [lastAsync EXCEPT ![mode] = [lut |-> lut, buckets |-> buckets]]
    /\ lastLaunch' = IF r.ok
                     THEN [lastLaunch EXCEPT ![mode] =
                              IF GenerateSkips(lut) THEN Nil
                              ELSE [lut |-> lut, buckets |-> buckets]]
                     ELSE lastLaunch
    /\ UNCHANGED <<cache, got, epoch, origin>>

\* A caller enters Generate(mode, lut, buckets) directly.
GenerateCall(mode, lut, buckets) ==
    /\ ncalls < MaxCalls
    /\ ncalls' = ncalls + 1
    /\ tasks' = tasks \cup {[id |-> FreeId, mode |-> mode, lut |-> lut,
                             buckets |-> buckets, async |-> FALSE,
                             pc |-> "generate", epoch |-> epoch[mode]]}
    /\ UNCHANGED <<cache, generating, got, lastCall, epoch, origin, lastAsync, lastLaunch>>

\* The body of Generate: early return, or build the entry and store it under
\* the write lock.  A direct caller returns here; a goroutine goes on to the
\* deferred FinishGenerating.
Generate(t) ==
    /\ t \in tasks
    /\ t.pc = "generate"
    /\ IF GenerateSkips(t.lut)
       THEN UNCHANGED <<cache, origin, lastAsync, lastLaunch>>
       ELSE /\ cache' = [cache EXCEPT ![t.mode] = CachedDistribution(t.lut, t.buckets)]
            /\ origin' = [origin EXCEPT ![t.mode] = t.epoch]
            /\ lastAsync' = IF t.async THEN lastAsync
                            ELSE [lastAsync EXCEPT ![t.mode] = Nil]
            /\ lastLaunch' = IF t.async THEN lastLaunch
                             ELSE [lastLaunch EXCEPT ![t.mode] = Nil]
    /\ tasks' = IF t.async
                THEN (tasks \ {t}) \cup {[t EXCEPT !.pc = "finish"]}
                ELSE tasks \ {t}
    /\ UNCHANGED <<generating, got, ncalls, lastCall, epoch>>

\* The goroutine's deferred FinishGenerating(mode).
FinishGenerating(t) ==
    /\ t \in tasks
    /\ t.pc = "finish"
    /\ generating' = FinishGeneratingSet(generating, t.mode)
    /\ tasks' = tasks \ {t}
    /\ UNCHANGED <<cache, got, ncalls, lastCall, epoch, origin, lastAsync, lastLaunch>>

\* Invalidate(mode): delete under the write lock.
Invalidate(mode) ==
    /\ epoch[mode] < MaxInvalidations
    /\ cache' = [cache EXCEPT ![mode] = Nil]
    /\ epoch' = [epoch EXCEPT ![mode] = epoch[mode] + 1]
    /\ lastAsync' = [lastAsync EXCEPT ![mode] = Nil]
    /\ lastLaunch' = [lastLaunch EXCEPT ![mode] = Nil]
    /\ UNCHANGED <<generating, tasks, got, ncalls, lastCall, origin>>

\* A reader calls Get(mode).
GetCall(mode) ==
    /\ got' = [mode |-> mode, value |-> Get(mode)]
    /\ got' # got
    /\ UNCHANGED <<cache, generating, tasks, ncalls, lastCall, epoch, origin,
                   lastAsync, lastLaunch>>

\* ---- DistributionCache: properties -------------------------------------

\* The entry Get(mode) returns is the ready entry made from one call's
\* arguments: its Buckets are the call's, the keys of ByBucket are the keys of
\* the call's buckets, and the items are the payout groups of the call's table.
EntryIsOf(mode, call) ==
    /\ Get(mode) # Nil
    /\ Get(mode).Ready
    /\ Get(mode).Buckets = call.buckets
    /\ DOMAIN Get(mode).ByBucket =
          {bucketKey(call.buckets[i].RangeStart, call.buckets[i].RangeEnd) :
              i \in DOMAIN call.buckets}
    /\ {it.Payout : it \in Range(Get(mode).Items)} =
          {call.lut[i].Payout : i \in DOMAIN call.lut}
    /\ \A k \in DOMAIN Get(mode).ByBucket :
          Range(Get(mode).ByBucket[k]) \subseteq Range(Get(mode).Items)

\* C1: once Invalidate(mode) has returned, Get(mode) is absent until a
\* generation started after that Invalidate stores its entry; an entry that is
\* present was never stored by a generation started before the Invalidate.
InvalidateHidesOlderGenerations ==
    \A m \in Modes : (epoch[m] > 0 /\ Get(m) # Nil) => origin[m] = epoch[m]

\* C2 as stated: after any GenerateAsync call, once nothing is in flight for
\* the mode (no Invalidate, no directly called Generate storing in between),
\* Get(mode) is the ready entry of that call's buckets.
EveryGenerateAsyncCallIsServed ==
    \A m \in Modes :
        (lastAsync[m] # Nil /\ InFlight(m) = {}) => EntryIsOf(m, lastAsync[m])

\* C2 amended: the same for the calls that launched a generation (mode not
\* marked generating) on a table with outcomes and a non-zero total weight.
LaunchedGenerationIsServed ==
    \A m \in Modes :
        (lastLaunch[m] # Nil /\ InFlight(m) = {}) => EntryIsOf(m, lastLaunch[m])

\* C2 witness: a launched generation has completed and its entry is served.
LaunchedGenerationCompleted ==
    \E m \in Modes :
        /\ lastLaunch[m] # Nil
        /\ InFlight(m) = {}
        /\ ~generating[m]
        /\ EntryIsOf(m, lastLaunch[m])

AtMostOneAsyncPerMode ==
    \A m \in Modes : Cardinality(AsyncInFlight(m)) <= 1

\* A step that is a GenerateAsync call on a mode marked generating leaves the
\* cache, the generating set and the generations in flight as they were.
MarkedCallChangesNothing ==
    (/\ ncalls' = ncalls + 1
     /\ lastCall' # Nil
     /\ lastCall'.n = ncalls'
     /\ generating[lastCall'.mode])
    => (cache' = cache /\ generating' = generating /\ tasks' = tasks)

\* C3: GenerateAsync is a test-and-set on the generating set: at most one
\* background generation per mode runs at any moment, and a call on a mode
\* marked generating launches nothing and changes nothing.
GenerateAsyncTestAndSet ==
    [] AtMostOneAsyncPerMode /\ [][MarkedCallChangesNothing]_vars

\* C3 witness: a GenerateAsync call was dropped while a generation was running.
GenerateAsyncDropped ==
    /\ lastCall # Nil
    /\ ~lastCall.launched
    /\ AsyncInFlight(lastCall.mode) # {}
    /\ generating[lastCall.mode]

\* A step in which a launched generation returns early from Generate (table
\* without outcomes or with zero total weight): nothing is stored, an entry
\* of the mode stays as it is, and the goroutine goes on to its deferred
\* FinishGenerating.
EarlyReturnStoresNothing ==
    \A t \in tasks :
        (t.async /\ t.pc = "generate" /\ GenerateSkips(t.lut) /\ t \notin tasks')
        => /\ cache' = cache
           /\ generating' = generating
           /\ [t EXCEPT !.pc = "finish"] \in tasks'

\* A step in which a launched generation ends: the mark of its mode is
\* cleared and the cache is not touched.
FinishClearsFlag ==
    \A t \in tasks :
        (t.pc = "finish" /\ t \notin tasks')
        => ~generating'[t.mode] /\ cache' = cache

\* A GenerateAsync call on a mode that is not marked launches a generation.
UnmarkedCallLaunches ==
    (/\ ncalls' = ncalls + 1
     /\ lastCall' # Nil
     /\ lastCall'.n = ncalls'
     /\ ~generating[lastCall'.mode])
    => /\ lastCall'.launched
       /\ generating'[lastCall'.mode]
       /\ \E t \in tasks' : t.mode = lastCall'.mode /\ t.async

\* C28: every generation launched by GenerateAsync eventually clears the
\* generating mark of its mode, also when Generate returns early for a table
\* with no outcomes or zero total weight; the early return stores no entry
\* and leaves an existing entry of the mode unchanged, and once the mark is
\* cleared a GenerateAsync call for the mode launches a new generation.
GeneratingFlagCleared ==
    /\ \A m \in Modes : (AsyncInFlight(m) # {}) ~> ~generating[m]
    /\ [](\A m \in Modes : generating[m] <=> AsyncInFlight(m) # {})
    /\ [](\A m \in Modes : ~generating[m] => StartGenerating(generating, m).ok)
    /\ [][EarlyReturnStoresNothing /\ FinishClearsFlag /\ UnmarkedCallLaunches]_vars

\* C28 witness: a generation launched on a table without outcomes or weight
\* has ended; the mark is cleared and the entry stored before is still there.
EarlyReturnCleared ==
    \E m \in Modes :
        /\ lastCall # Nil /\ lastCall.mode = m /\ lastCall.launched
        /\ lastAsync[m] # Nil /\ GenerateSkips(lastAsync[m].lut)
        /\ InFlight(m) = {}
        /\ ~generating[m]
        /\ cache[m] # Nil


\* ---- DistributionCache: GetBucketItems and the bucket arrays ------------

\* GetBucketItems: the limit used when none is given, and the largest one
DefaultLimit == 100
MaxLimit == 500

\* Bucket lists whose edges chain (RangeEnd = next RangeStart): two buckets
\* meeting at 2.00 and two meeting at 4.96, right under the top edge 5.00.
BucketsChain ==
    << [RangeStart |-> 0,   RangeEnd |-> 200],
       [RangeStart |-> 200, RangeEnd |-> 500] >>
BucketsNearTop ==
    << [RangeStart |-> 0,   RangeEnd |-> 496],
       [RangeStart |-> 496, RangeEnd |-> 500] >>
PageBucketLists == {BucketsCoarse, BucketsChain, BucketsNearTop}

\* arguments of GetBucketItems: a bucket of BucketsCoarse, of BucketsChain
\* and one no list has; offsets below, inside and above a bucket's items;
\* limits not given, small and above the cap
PageRanges == {<<1, 500>>, <<200, 500>>, <<7, 9>>}
PageOffsets == {-1, 0, 1, 3}
PageLimits == {0, 1, 600}

\* a limit taken as given
PageLimitAsGiven(limit) == limit

\* if limit <= 0 { limit = 100 }; if limit > 500 { limit = 500 }
PageLimit(limit) ==
    IF limit <= 0 THEN DefaultLimit ELSE IF limit > MaxLimit THEN MaxLimit ELSE limit

\* if offset < 0 { offset = 0 }; if offset > total { offset = total }
PageOffset(offset, total) ==
    IF offset < 0 THEN 0 ELSE IF offset > total THEN total ELSE offset

\* end := offset + limit; if end > total { end = total }
PageEnd(offset, limit, total) ==
    IF offset + limit > total THEN total ELSE offset + limit

\* the response for a bucket the entry knows
BucketPage(items, rangeStart, rangeEnd, offset, limit) ==
    [ RangeStart |-> rangeStart,
      RangeEnd   |-> rangeEnd,
      Items      |-> SubSeq(items, offset + 1, PageEnd(offset, limit, Len(items))),
      Total      |-> Len(items),
      Offset     |-> offset,
      Limit      |-> limit,
      HasMore    |-> PageEnd(offset, limit, Len(items)) < Len(items) ]

\* GetBucketItems(mode, rangeStart, rangeEnd, offset, limit) on the entry
\* read under the read lock
GetBucketItems(cached, rangeStart, rangeEnd, offset, limit) ==
    IF cached = Nil \/ ~cached.Ready THEN Nil
    ELSE IF bucketKey(rangeStart, rangeEnd) \notin DOMAIN cached.ByBucket
    THEN [ RangeStart |-> rangeStart, RangeEnd |-> rangeEnd, Items |-> <<>>,
           Total |-> 0, Offset |-> offset, Limit |-> limit, HasMore |-> FALSE ]
    ELSE BucketPage(cached.ByBucket[bucketKey(rangeStart, rangeEnd)],
                    rangeStart, rangeEnd,
                    PageOffset(offset, Len(cached.ByBucket[bucketKey(rangeStart, rangeEnd)])),
                    PageLimit(limit))

\* A reader calls GetBucketItems.
GetBucketItemsCall(mode, rangeStart, rangeEnd, offset, limit) ==
    /\ got' = [mode |-> mode, rangeStart |-> rangeStart, rangeEnd |-> rangeEnd,
               offset |-> offset, limit |-> limit,
               value |-> GetBucketItems(cache[mode], rangeStart, rangeEnd, offset, limit)]
    /\ got' # got
    /\ UNCHANGED <<cache, generating, tasks, ncalls, lastCall, epoch, origin,
                   lastAsync, lastLaunch>>

\* ---- properties of GetBucketItems and of the bucket arrays

\* the latest read was a GetBucketItems call
GotPage == "offset" \in DOMAIN got

\* the items the entry holds for the bucket the latest call asked for
GotBucket == cache[got.mode].ByBucket[bucketKey(got.rangeStart, got.rangeEnd)]

GotKnownBucket ==
    /\ GotPage
    /\ cache[got.mode] # Nil
    /\ bucketKey(got.rangeStart, got.rangeEnd) \in DOMAIN cache[got.mode].ByBucket

Clamp(x, lo, hi) == IF x < lo THEN lo ELSE IF x > hi THEN hi ELSE x
Min2(a, b) == IF a < b THEN a ELSE b

\* C21: a GetBucketItems call returns nil when the mode has no ready entry;
\* for a ready entry and a known bucket of `total` items it returns offset
\* clamped to [0, total], limit 100 when none (<= 0) is given and at most
\* 500, the bucket's items from offset up to min(offset + limit, total) in
\* stored order, Total = total, and HasMore iff offset + limit < total.
GetBucketItemsPaginates ==
    [][ (GotPage' /\ got' # got) =>
          /\ cache[got'.mode] = Nil => got'.value = Nil
          /\ GotKnownBucket' =>
                /\ got'.value # Nil
                /\ got'.value.Offset = Clamp(got'.offset, 0, Len(GotBucket'))
                /\ got'.value.Limit =
                      IF got'.limit <= 0 THEN 100 ELSE Min2(got'.limit, 500)
                /\ got'.value.Total = Len(GotBucket')
                /\ got'.value.Items =
                      [i \in 1..(Min2(got'.value.Offset + got'.value.Limit,
                                      Len(GotBucket')) - got'.value.Offset) |->
                          GotBucket'[got'.value.Offset + i]]
                /\ got'.value.HasMore <=>
                      (got'.value.Offset + got'.value.Limit < Len(GotBucket')) ]_vars

\* C21 witness: a page of one item from the second item of a bucket of two,
\* with nothing after it.
SecondPageOfTwo ==
    /\ GotKnownBucket
    /\ Len(GotBucket) = 2
    /\ got.offset = 1
    /\ got.limit = 1
    /\ got.value.Items = <<GotBucket[2]>>
    /\ ~got.value.HasMore

\* a bucket list whose edges chain: gap-free and non-overlapping
Chained(buckets) ==
    /\ \A i \in DOMAIN buckets : buckets[i].RangeStart < buckets[i].RangeEnd
    /\ \A i \in 1..(Len(buckets) - 1) :
          buckets[i].RangeEnd = buckets[i + 1].RangeStart

\* the items of an entry the partition rule puts into its i-th bucket
RuleItems(entry, i) ==
    SelectSeq(entry.Items,
              LAMBDA it :
                  /\ entry.Buckets[i].RangeStart <= it.Payout
                  /\ \/ it.Payout < entry.Buckets[i].RangeEnd
                     \/ i = Len(entry.Buckets) /\ it.Payout = entry.Buckets[i].RangeEnd)

\* the bucket arrays of an entry that hold an item
ArraysHolding(entry, it) ==
    {i \in DOMAIN entry.Buckets :
        \E k \in DOMAIN entry.ByBucket[bucketKey(entry.Buckets[i].RangeStart,
                                                  entry.Buckets[i].RangeEnd)] :
            entry.ByBucket[bucketKey(entry.Buckets[i].RangeStart,
                                     entry.Buckets[i].RangeEnd)][k] = it}

\* C22: in an entry generated for a chained bucket list every item inside
\* the buckets' overall range is in exactly one bucket array, and the array
\* of [start, end) holds exactly the items with start <= payout < end, the
\* last bucket also the items with payout = end.
GeneratePartitionRule ==
    \A m \in Modes :
        (cache[m] # Nil /\ Chained(cache[m].Buckets)) =>
            /\ \A i \in DOMAIN cache[m].Buckets :
                  cache[m].ByBucket[bucketKey(cache[m].Buckets[i].RangeStart,
                                              cache[m].Buckets[i].RangeEnd)]
                     = RuleItems(cache[m], i)
            /\ \A k \in DOMAIN cache[m].Items :
                  (/\ cache[m].Buckets[1].RangeStart <= cache[m].Items[k].Payout
                   /\ cache[m].Items[k].Payout
                         <= cache[m].Buckets[Len(cache[m].Buckets)].RangeEnd)
                  => Cardinality(ArraysHolding(cache[m], cache[m].Items[k])) = 1

\* The rule as the code has it: it holds for the chained lists in which only
\* the last bucket ends at or above 99% of the largest edge.
PartitionRuleAwayFromTop ==
    \A m \in Modes :
        (/\ cache[m] # Nil
         /\ Chained(cache[m].Buckets)
         /\ \A i \in 1..(Len(cache[m].Buckets) - 1) :
               cache[m].Buckets[i].RangeEnd * 100 < MaxRangeEnd(cache[m].Buckets) * 99)
        => \A i \in DOMAIN cache[m].Buckets :
              cache[m].ByBucket[bucketKey(cache[m].Buckets[i].RangeStart,
                                          cache[m].Buckets[i].RangeEnd)]
                 = RuleItems(cache[m], i)

\* ------------------------------------------------------------------------
\* FileWatcher
\* ------------------------------------------------------------------------

\* Bounds of the watcher specification.
MaxEvents == 3
MaxTime == 3

\* debounce set by NewFileWatcher: 2 * time.Second
DefaultDebounce == 2
\* values given to SetDebounce
DebounceChoices == {1}

TrackedFile == "lookUpTable_base_0.csv"
EventNames == {TrackedFile, "notes.txt"}
EventOps == {"write", "create", "remove"}

\* A handler that does not look at fw.enabled.
EnabledNotRead == TRUE

\* Enabled() under the read lock.
Enabled == enabled

\* A handler that forgets "fw.lastChange[filename] = now".
RecordChangeForgotten(lc, filename, t) == lc

\* handleEvent: fw.lastChange[filename] = now
RecordChange(lc, filename, t) ==
    [f \in DOMAIN lc \cup {filename} |-> IF f = filename THEN t ELSE lc[f]]

\* A test that also drops the event handled exactly debounce later.
DebounceDropsInclusive(lc, filename, t, d) ==
    filename \in DOMAIN lc /\ t - lc[filename] <= d

\* handleEvent: exists && now.Sub(lastTime) < fw.debounce
DebounceDrops(lc, filename, t, d) ==
    filename \in DOMAIN lc /\ t - lc[filename] < d

WatcherInit ==
    /\ enabled = TRUE
    /\ files = [f \in {TrackedFile} |-> "base"]
    /\ debounce = DefaultDebounce
    /\ lastChange = [f \in {} |-> 0]
    /\ started = FALSE
    /\ now = 0
    /\ reloads = {}
    /\ evlog = <<>>
    /\ reloadCalls = [i \in 1..MaxEvents |-> 0]
    /\ running = FALSE
    /\ stopPc = "idle"
    /\ handled = 0
    /\ failed = {}

\* Start: watch the directory and launch run().
Start ==
    /\ ~started
    /\ started' = TRUE
    /\ running' = TRUE
    /\ UNCHANGED <<enabled, files, debounce, lastChange, now, reloads, evlog, reloadCalls,
                   stopPc, handled, failed>>

\* run() takes one event from watcher.Events and calls handleEvent(event).
HandleEvent(name, op) ==
    /\ running
    /\ handled < MaxEvents
    /\ handled' = handled + 1
    /\ IF op \notin {"write", "create"} \/ name \notin DOMAIN files
       THEN UNCHANGED <<lastChange, reloads, evlog>>
       ELSE IF ~Enabled
       THEN /\ evlog' = Append(evlog, [file |-> name, t |-> now, debounce |-> debounce,
                                        outcome |-> "ignored"])
            /\ UNCHANGED <<lastChange, reloads>>
       ELSE IF DebounceDrops(lastChange, name, now, debounce)
       THEN /\ evlog' = Append(evlog, [file |-> name, t |-> now, debounce |-> debounce,
                                        outcome |-> "debounced"])
            /\ UNCHANGED <<lastChange, reloads>>
       ELSE /\ lastChange' = RecordChange(lastChange, name, now)
            /\ evlog' = Append(evlog, [file |-> name, t |-> now, debounce |-> debounce,
                                        outcome |-> "accepted"])
            /\ reloads' = reloads \cup {[ev |-> Len(evlog) + 1, mode |-> files[name],
                                         file |-> name, pc |-> "wait"]}
    /\ UNCHANGED <<enabled, files, debounce, started, now, reloadCalls, running, stopPc,
                   failed>>

\* The reload goroutine: waitForFileStable returns nil, after the file was
\* seen stable or after the maximum wait (time passes by Tick meanwhile).
WaitForFileStable(g) ==
    /\ g \in reloads
    /\ g.pc = "wait"
    /\ reloads' = (reloads \ {g}) \cup {[g EXCEPT !.pc = "reload"]}
    /\ UNCHANGED <<enabled, files, debounce, lastChange, started, now, evlog, reloadCalls,
                   running, stopPc, handled, failed>>

\* A reload goroutine whose error ends the worker loop.
RunningAfterReloadFatal(r, err) == r /\ ~err

\* What onReload's result does to the worker loop: the error is logged in
\* the reload goroutine and goes nowhere else.
RunningAfterReload(r, err) == r

\* The reload goroutine: fw.onReload(m), which returns an error or nil. A
\* failed call is logged with its time and with whether it was made while
\* enabled was false and after Stop had returned.
Reload(g, err) ==
    /\ g \in reloads
    /\ g.pc = "reload"
    /\ reloadCalls' = [reloadCalls EXCEPT ![g.ev] = @ + 1]
    /\ reloads' = reloads \ {g}
    /\ failed' = IF err
               THEN failed \cup {[ev |-> g.ev, t |-> now,
                                  late |-> ~enabled /\ stopPc = "returned"]}
               ELSE failed
    /\ running' = RunningAfterReload(running, err)
    /\ UNCHANGED <<enabled, files, debounce, lastChange, started, now, evlog, stopPc,
                   handled>>

\* A Stop that does not wait for the worker.
WaitGroupNotWaited(r) == TRUE

\* fw.wg.Wait() returns once run() has called wg.Done().
WaitGroupDone(r) == ~r

\* A Stop that cancels the reload goroutines in flight.
ReloadsCancelled(rs) == {}

\* The reload goroutines after close(fw.stopCh): they do not select on it.
ReloadsAfterStop(rs) == rs

\* Stop, first part: close(fw.stopCh) and fw.watcher.Close(), then wg.Wait().
Stop ==
    /\ started
    /\ stopPc = "idle"
    /\ stopPc' = "wait"
    /\ reloads' = ReloadsAfterStop(reloads)
    /\ UNCHANGED <<enabled, files, debounce, lastChange, started, now, evlog,
                   reloadCalls, running, handled, failed>>

\* run() takes the closed stopCh (or the closed Events channel) in its
\* select and returns; the deferred wg.Done() runs.
RunReturn ==
    /\ running
    /\ stopPc # "idle"
    /\ running' = FALSE
    /\ UNCHANGED <<enabled, files, debounce, lastChange, started, now, reloads, evlog,
                   reloadCalls, stopPc, handled, failed>>

\* Stop, second part: wg.Wait() returns and Stop returns.
StopReturn ==
    /\ stopPc = "wait"
    /\ WaitGroupDone(running)
    /\ stopPc' = "returned"
    /\ UNCHANGED <<enabled, files, debounce, lastChange, started, now, reloads, evlog,
                   reloadCalls, running, handled, failed>>

\* SetEnabled(e) under the write lock.
SetEnabled(e) ==
    /\ enabled' = e
    /\ enabled' # enabled
    /\ UNCHANGED <<files, debounce, lastChange, started, now, reloads, evlog, reloadCalls,
                   running, stopPc, handled, failed>>

\* SetDebounce(d) under fw.mu.
SetDebounce(d) ==
    /\ debounce' = d
    /\ debounce' # debounce
    /\ UNCHANGED <<enabled, files, lastChange, started, now, reloads, evlog, reloadCalls,
                   running, stopPc, handled, failed>>

\* The clock advances by one second.
Tick ==
    /\ now < MaxTime
    /\ now' = now + 1
    /\ UNCHANGED <<enabled, files, debounce, lastChange, started, reloads, evlog, reloadCalls,
                   running, stopPc, handled, failed>>

\* ---- FileWatcher: properties -------------------------------------------

\* Two logged events of one file, the second handled less than debounce (as
\* it is when the second is handled) after the first.
WithinDebounce(i, j) ==
    /\ i < j
    /\ evlog[i].file = evlog[j].file
    /\ evlog[j].t - evlog[i].t < evlog[j].debounce

\* C4 as stated: of two write/create events of a tracked file that reach the
\* debounce test less than debounce apart, the second is dropped without
\* scheduling a reload.
SecondEventWithinDebounceDropped ==
    \A i, j \in DOMAIN evlog :
        (/\ WithinDebounce(i, j)
         /\ evlog[i].outcome # "ignored"
         /\ evlog[j].outcome # "ignored")
        => evlog[j].outcome = "debounced"

\* C4 amended: two write/create events of a tracked file handled less than
\* debounce apart cause at most one reload call between them, and the second
\* is dropped without scheduling a reload whenever the first was accepted.
DebounceAtMostOneReload ==
    \A i, j \in DOMAIN evlog :
        WithinDebounce(i, j) =>
            /\ reloadCalls[i] + reloadCalls[j] <= 1
            /\ ~(evlog[i].outcome = "accepted" /\ evlog[j].outcome = "accepted")
            /\ evlog[i].outcome = "accepted" =>
                  /\ evlog[j].outcome # "accepted"
                  /\ \A g \in reloads : g.ev # j

\* C4 witness: an accepted event was reloaded and a later event of the same
\* file inside the debounce window was dropped by the debounce test.
DebouncedAfterReload ==
    \E i, j \in DOMAIN evlog :
        /\ WithinDebounce(i, j)
        /\ evlog[i].outcome = "accepted"
        /\ evlog[j].outcome = "debounced"
        /\ reloadCalls[i] = 1

\* C14: while enabled is false a handled event schedules no reload and
\* leaves last_change as it is (a tracked write/create event is logged as
\* ignored), and every event dropped by the debounce test follows, by less
\* than debounce, an accepted event of the same file: an event dropped
\* while disabled opens no debounce window.
DisabledDropsEvents ==
    /\ [](\A j \in DOMAIN evlog :
             evlog[j].outcome = "debounced" =>
                \E i \in 1..(j - 1) : /\ evlog[i].file = evlog[j].file
                                      /\ evlog[i].outcome = "accepted"
                                      /\ evlog[j].t - evlog[i].t < evlog[j].debounce)
    /\ [][~enabled => /\ lastChange' = lastChange
                      /\ {g.ev : g \in reloads'} \subseteq {g.ev : g \in reloads}
                      /\ Len(evlog') > Len(evlog)
                            => evlog'[Len(evlog')].outcome = "ignored"]_vars

\* C14 witness: an event was dropped while disabled and, after re-enabling,
\* an event of the same file handled less than debounce later was accepted.
AcceptedAfterIgnored ==
    \E i, j \in DOMAIN evlog :
        /\ WithinDebounce(i, j)
        /\ evlog[i].outcome = "ignored"
        /\ evlog[j].outcome = "accepted"
        /\ \A k \in 1..(j - 1) : evlog[k].outcome # "accepted"

\* C17: once Stop has returned, the shutdown channel is closed and the
\* worker loop has exited, and from then on no event is passed to
\* handleEvent.
StopJoinsWorker ==
    /\ [](stopPc = "returned" => ~running)
    /\ [](running => started)
    /\ [][stopPc = "returned" => /\ handled' = handled
                                 /\ evlog' = evlog
                                 /\ lastChange' = lastChange
                                 /\ stopPc' = "returned"]_vars

\* C17 witness: Stop returned after the worker had accepted an event, whose
\* reload goroutine is still waiting for the file.
StoppedAfterEvents ==
    /\ stopPc = "returned"
    /\ ~running
    /\ \E i \in DOMAIN evlog : /\ evlog[i].outcome = "accepted"
                               /\ \E g \in reloads : g.ev = i /\ g.pc = "wait"

\* C18: a reload callback that returns an error changes nothing of the
\* worker: the loop keeps running, last_change, files, enabled and debounce
\* stay as they are, and the failed event is not reloaded again.
FailedReloadOnlyLogged ==
    [][failed' # failed => /\ running' = running
                           /\ stopPc' = stopPc
                           /\ lastChange' = lastChange
                           /\ files' = files
                           /\ enabled' = enabled
                           /\ debounce' = debounce
                           /\ {g.ev : g \in reloads'} \subseteq {g.ev : g \in reloads}
      ]_vars

\* C18 witness: after the reload of one event failed, the worker handled and
\* accepted a later event, whose reload was called.
ReloadedAfterFailedReload ==
    \E f \in failed, j \in DOMAIN evlog :
        /\ f.ev < j
        /\ f.t < evlog[j].t
        /\ evlog[j].outcome = "accepted"
        /\ reloadCalls[j] = 1
        /\ running

\* Event i of the log was accepted by handleEvent.
Accepted(i) == i \in DOMAIN evlog /\ evlog[i].outcome = "accepted"

\* C27, seen from handleEvent: every accepted event eventually leads to
\* exactly one call of the reload callback, made for the mode of the event's
\* file; the wait of its goroutine ends without an error (it has no other
\* outcome than going on to the callback), and an event that was not
\* accepted leads to no call.
AcceptedEventReloadedOnce ==
    /\ \A i \in 1..MaxEvents : [](Accepted(i) => <>(reloadCalls[i] = 1))
    /\ [](\A i \in 1..MaxEvents :
             /\ reloadCalls[i] <= 1
             /\ reloadCalls[i] = 1 => Accepted(i)
             /\ Accepted(i) => (reloadCalls[i] = 1) # (\E g \in reloads : g.ev = i))
    /\ [](\A g \in reloads : g.mode = files[g.file] /\ g.file = evlog[g.ev].file)
    /\ [][\A i \in 1..MaxEvents : reloadCalls[i] = 1 => reloadCalls'[i] = 1]_vars

\* C27 witness: two events of the tracked file were accepted and each was
\* reloaded once.
TwoEventsReloaded ==
    \E i, j \in 1..MaxEvents :
        /\ i < j
        /\ Accepted(i) /\ Accepted(j)
        /\ reloadCalls[i] = 1 /\ reloadCalls[j] = 1
        /\ reloads = {}

\* The accepted events of the file of event j logged before it.
AcceptedBefore(j) ==
    {i \in 1..(j - 1) : evlog[i].file = evlog[j].file /\ evlog[i].outcome = "accepted"}

\* The last of them.
LastAcceptedBefore(j) ==
    CHOOSE i \in AcceptedBefore(j) : \A k \in AcceptedBefore(j) : k <= i

\* C29: the debounce window of a file is measured from its last accepted
\* event. An event that reaches the debounce test is accepted exactly when
\* no event of the file was accepted before or the last accepted one is at
\* least debounce old, whatever was dropped in between; last_change holds
\* the times of the last accepted events and a step that drops an event
\* leaves it alone; the accepted events of a file are at least debounce (as
\* it is when the later one is handled) apart.
DebounceFromLastAccepted ==
    /\ [](\A j \in DOMAIN evlog :
             evlog[j].outcome \in {"accepted", "debounced"} =>
                IF AcceptedBefore(j) = {}
                THEN evlog[j].outcome = "accepted"
                ELSE evlog[j].outcome = "accepted"
                        <=> evlog[j].t - evlog[LastAcceptedBefore(j)].t >= evlog[j].debounce)
    /\ [](\A i, j \in DOMAIN evlog :
             (/\ i < j
              /\ evlog[i].file = evlog[j].file
              /\ evlog[i].outcome = "accepted"
              /\ evlog[j].outcome = "accepted")
             => evlog[j].t - evlog[i].t >= evlog[j].debounce)
    /\ [](/\ DOMAIN lastChange =
                {evlog[i].file : i \in {k \in DOMAIN evlog : evlog[k].outcome = "accepted"}}
          /\ \A f \in DOMAIN lastChange :
                \E i \in DOMAIN evlog :
                    /\ evlog[i].file = f /\ evlog[i].outcome = "accepted"
                    /\ evlog[i].t = lastChange[f]
                    /\ \A k \in (i + 1)..Len(evlog) :
                          ~(evlog[k].file = f /\ evlog[k].outcome = "accepted"))
    /\ [][(Len(evlog') > Len(evlog) /\ evlog'[Len(evlog')].outcome # "accepted")
              => lastChange' = lastChange]_vars

\* C29 witness: an event was accepted debounce after the last accepted event
\* of its file and less than debounce after an event dropped in between.
AcceptedAfterDropped ==
    \E i, k, j \in DOMAIN evlog :
        /\ i < k /\ k < j
        /\ evlog[i].file = evlog[j].file /\ evlog[k].file = evlog[j].file
        /\ evlog[i].outcome = "accepted"
        /\ evlog[k].outcome = "debounced"
        /\ evlog[j].outcome = "accepted"
        /\ evlog[j].t - evlog[i].t = evlog[j].debounce
        /\ evlog[j].t - evlog[k].t < evlog[j].debounce

\* C30: reloads in flight are not cancelled. A step of SetEnabled or of Stop
\* (and the return of run) touches no reload goroutine; a goroutine in
\* flight stays, goes on from its wait, or calls the callback, whatever
\* enabled and the state of Stop are; while disabled or after Stop returned
\* no new goroutine is launched.
ReloadsNotCancelled ==
    /\ [][(enabled' # enabled \/ stopPc' # stopPc \/ running' # running)
             => (reloads' = reloads /\ reloadCalls' = reloadCalls)]_vars
    /\ [][\A g \in reloads :
             \/ g \in reloads'
             \/ g.pc = "wait" /\ [g EXCEPT !.pc = "reload"] \in reloads'
             \/ g.pc = "reload" /\ reloadCalls'[g.ev] = reloadCalls[g.ev] + 1]_vars
    /\ [][(~enabled \/ stopPc = "returned")
             => {g.ev : g \in reloads'} \subseteq {g.ev : g \in reloads}]_vars
    /\ [](\A f \in failed : Accepted(f.ev) /\ reloadCalls[f.ev] = 1)

\* C30 witness: the callback was called (and returned an error, which logged
\* the call) while enabled was false and after Stop had returned.
ReloadCalledAfterStop ==
    \E f \in failed :
        /\ f.late
        /\ evlog[f.ev].outcome = "accepted"

\* ------------------------------------------------------------------------
\* FileWatcher: the reload goroutine (waitForFileStable, onReload)
\* ------------------------------------------------------------------------

\* checkInterval and stableRequired of waitForFileStable; time in ms
CheckInterval == 200
StableRequired == 3
\* Bound of the stability specification: maxWait (30 s in the code), in ms.
MaxWait == 1200

\* info.Size() of a poll; StatError stands for a failed os.Stat
StatError == -1
StatChoices == {StatError, 0, 1, 2}
\* how long a time.Sleep(checkInterval) takes: the interval or longer
SleepChoices == {CheckInterval, 2 * CheckInterval}

\* stableCount after a poll, without the reset of a changed or zero size
NextStableCountNoReset(count, last, current) ==
    IF current = last /\ current > 0 THEN count + 1 ELSE count

\* stableCount after a poll that returned size current
NextStableCount(count, last, current) ==
    IF current = StatError THEN 0
    ELSE IF current = last /\ current > 0 THEN count + 1
    ELSE 0

StableInit ==
    /\ stablePc = "top"
    /\ sinceStart = 0
    /\ lastSize = -1
    /\ stableCount = 0
    /\ polls = <<>>

\* the goroutine of the other specifications: not looked into
StableAtRest == StableInit

\* A loop without the exit on the maximum wait.
MaxWaitNeverExceeded(since) == FALSE

\* time.Since(startTime) > maxWait
MaxWaitExceeded(since) == since > MaxWait

\* top of the loop: time.Since(startTime) > maxWait returns nil
CheckMaxWait ==
    /\ stablePc = "top"
    /\ stablePc' = IF MaxWaitExceeded(sinceStart) THEN "reload" ELSE "stat"
    /\ UNCHANGED <<sinceStart, lastSize, stableCount, polls>>

\* os.Stat(path) and the comparison of the size with lastSize
Stat(current) ==
    /\ stablePc = "stat"
    /\ polls' = Append(polls, [size |-> current, at |-> sinceStart])
    /\ stableCount' = NextStableCount(stableCount, lastSize, current)
    /\ lastSize' = current
    /\ stablePc' = IF current # StatError /\ stableCount' >= StableRequired
                   THEN "reload" ELSE "sleep"
    /\ UNCHANGED sinceStart

\* time.Sleep(checkInterval)
Sleep(d) ==
    /\ stablePc = "sleep"
    /\ sinceStart' = sinceStart + d
    /\ stablePc' = "top"
    /\ UNCHANGED <<lastSize, stableCount, polls>>

\* waitForFileStable returned nil: fw.onReload(m)
OnReload ==
    /\ stablePc = "reload"
    /\ stablePc' = "done"
    /\ UNCHANGED <<sinceStart, lastSize, stableCount, polls>>

\* --- properties of the reload goroutine

\* poll k took place, returned a non-zero size and the poll before it
\* returned the same size
StablePoll(k) ==
    /\ k > 1
    /\ polls[k].size > 0
    /\ polls[k].size = polls[k - 1].size

\* the number of stable polls at the end of the polls made so far
RECURSIVE TrailingStable(_)
TrailingStable(k) == IF k >= 1 /\ StablePoll(k) THEN 1 + TrailingStable(k - 1) ELSE 0

\* C15: the reload callback is reached only after 3 consecutive polls, each
\* at least 200 ms after the one before, returned the non-zero size of the
\* poll before them (a size constant for at least 600 ms), or after more
\* than the maximum wait; and the count of consecutive stable polls is 0
\* after a poll with a changed size, a zero size or a stat error.
ReloadAfterStableOrMaxWait ==
    /\ stableCount = TrailingStable(Len(polls))
    /\ \A k \in 2..Len(polls) : polls[k].at - polls[k - 1].at >= CheckInterval
    /\ stablePc \in {"reload", "done"} =>
          \/ sinceStart > MaxWait
          \/ /\ Len(polls) > StableRequired
             /\ \A k \in (Len(polls) - StableRequired + 1)..Len(polls) : StablePoll(k)
             /\ polls[Len(polls)].at - polls[Len(polls) - StableRequired].at
                   >= StableRequired * CheckInterval

\* C15 witness: the callback ran after a wait in which a stat error, a zero
\* size and a changed size each reset the count before the file was stable.
ReloadedAfterResets ==
    /\ stablePc = "done"
    /\ sinceStart <= MaxWait
    /\ \E k \in DOMAIN polls : polls[k].size = StatError
    /\ \E k \in DOMAIN polls : polls[k].size = 0
    /\ \E k \in DOMAIN polls : k > 1 /\ polls[k].size > 0 /\ polls[k - 1].size > 0
                               /\ polls[k].size # polls[k - 1].size

\* --- liveness of the reload goroutine

\* the wait of the goroutine has begun
WaitStarted == stablePc # "top" \/ sinceStart > 0

\* the longest a wait can last: maxWait and the sleep that passes it
WaitLimit == MaxWait + 2 * CheckInterval

\* C27, seen from inside the goroutine: whatever os.Stat returns, the wait
\* returns when no more than the maximum wait and one sleep have passed, it
\* returns nil (the only way on is to the callback), and the callback is
\* then called, once.
WaitTerminatesAndReloads ==
    /\ [](WaitStarted => <>(stablePc = "done"))
    /\ [](sinceStart <= WaitLimit)
    /\ [](stablePc \in {"top", "stat", "sleep", "reload", "done"})
    /\ [][stablePc = "reload" => stablePc' = "done"]_vars
    /\ [][stablePc = "done" => stablePc' = "done"]_vars

\* C27: every accepted event eventually leads to exactly one call of the
\* reload callback for the mode of its file, and the stability wait of the
\* reload goroutine always terminates, just after the maximum wait at the
\* latest, and never with an error, so that the callback is also called for
\* a file that never stabilises, stays empty or does not exist.
ReloadLiveness == AcceptedEventReloadedOnce /\ WaitTerminatesAndReloads

\* C27 witness, inside the goroutine: the callback was called after the
\* maximum wait for a file that was missing, empty or changing at every poll.
ReloadedUnstableFile ==
    /\ stablePc = "done"
    /\ sinceStart > MaxWait
    /\ stableCount = 0
    /\ \E k \in DOMAIN polls : polls[k].size = StatError
    /\ \E k \in DOMAIN polls : polls[k].size = 0
    /\ \A k \in DOMAIN polls : ~StablePoll(k)

\* ------------------------------------------------------------------------
\* FileWatcher: locking of the shared fields
\* ------------------------------------------------------------------------

\* Bound of the locking specification: calls begun, handleEvent included.
MaxLockCalls == 3

\* the worker goroutine (run) and two goroutines calling the API
Worker == "worker"
Threads == {Worker, "api1", "api2"}

Instr(kind, on) == [kind |-> kind, on |-> on]

\* the lock operations and the accesses to shared fields of each function,
\* in program order
Program(op) ==
    CASE op = "handleEvent" ->
            << Instr("rlock", "enabledMu"), Instr("read", "enabled"),
               Instr("runlock", "enabledMu"),
               Instr("read", "files"),
               Instr("lock", "mu"), Instr("read", "lastChange"),
               Instr("read", "debounce"), Instr("write", "lastChange"),
               Instr("unlock", "mu") >>
      [] op = "Enabled" ->
            << Instr("rlock", "enabledMu"), Instr("read", "enabled"),
               Instr("runlock", "enabledMu") >>
      [] op = "SetEnabled" ->
            << Instr("lock", "enabledMu"), Instr("write", "enabled"),
               Instr("unlock", "enabledMu") >>
      [] op = "SetDebounce" ->
            << Instr("lock", "mu"), Instr("write", "debounce"), Instr("unlock", "mu") >>
      [] op = "AddFile" ->
            << Instr("lock", "mu"), Instr("write", "files"), Instr("unlock", "mu") >>
      [] op = "GetFiles" ->
            << Instr("lock", "mu"), Instr("read", "files"), Instr("unlock", "mu") >>

ApiCalls ==
    {[op |-> "Enabled", name |-> "", flag |-> FALSE, dur |-> 0],
     [op |-> "GetFiles", name |-> "", flag |-> FALSE, dur |-> 0]}
    \cup {[op |-> "SetEnabled", name |-> "", flag |-> e, dur |-> 0] : e \in BOOLEAN}
    \cup {[op |-> "SetDebounce", name |-> "", flag |-> FALSE, dur |-> d] :
             d \in DebounceChoices}
    \cup {[op |-> "AddFile", name |-> "notes.txt", flag |-> FALSE, dur |-> 0]}

EventCalls ==
    {[op |-> "handleEvent", name |-> n, flag |-> FALSE, dur |-> 0] : n \in EventNames}

IdleThread == [op |-> "", name |-> "", flag |-> FALSE, dur |-> 0, pc |-> 0, leave |-> FALSE]

\* the instruction thread t executes next, Nil when it is in no call
NextInstr(t) == IF thread[t].op = "" THEN Nil ELSE Program(thread[t].op)[thread[t].pc]

\* thread t is about to read or write the field
AtAccess(t, kind, field) ==
    thread[t].op # "" /\ NextInstr(t).kind = kind /\ NextInstr(t).on = field

\* thread t after its instruction, continuing at pc next or returning
Advance(t, next, leave) ==
    IF next > Len(Program(thread[t].op))
    THEN [thread EXCEPT ![t] = IdleThread]
    ELSE [thread EXCEPT ![t].pc = next, ![t].leave = leave]

LocksInit ==
    /\ thread = [t \in Threads |-> IdleThread]
    /\ mu = ""
    /\ enabledMu = [writer |-> "", readers |-> {}]
    /\ fatal = FALSE
    /\ lockCalls = 0

\* the locks of the other specifications: no call in progress
LocksAtRest == LocksInit

\* a goroutine enters an API function, or run() calls handleEvent(event)
BeginCall(t, call) ==
    /\ ~fatal
    /\ thread[t].op = ""
    /\ lockCalls < MaxLockCalls
    /\ call \in IF t = Worker THEN EventCalls ELSE ApiCalls
    /\ thread' = [thread EXCEPT ![t] = [op |-> call.op, name |-> call.name,
                                         flag |-> call.flag, dur |-> call.dur,
                                         pc |-> 1, leave |-> FALSE]]
    /\ lockCalls' = lockCalls + 1
    /\ UNCHANGED <<mu, enabledMu, fatal, enabled, files, debounce, lastChange>>

\* Lock / RLock: blocks while the lock is held the other way
Acquire(t) ==
    /\ ~fatal
    /\ thread[t].op # ""
    /\ NextInstr(t).kind \in {"lock", "rlock"}
    /\ IF NextInstr(t).on = "mu"
       THEN /\ mu = ""
            /\ mu' = t
            /\ UNCHANGED enabledMu
       ELSE IF NextInstr(t).kind = "lock"
       THEN /\ enabledMu.writer = "" /\ enabledMu.readers = {}
            /\ enabledMu' = [enabledMu EXCEPT !.writer = t]
            /\ UNCHANGED mu
       ELSE /\ enabledMu.writer = ""
            /\ enabledMu' = [enabledMu EXCEPT !.readers = @ \cup {t}]
            /\ UNCHANGED mu
    /\ thread' = Advance(t, thread[t].pc + 1, FALSE)
    /\ UNCHANGED <<fatal, lockCalls, enabled, files, debounce, lastChange>>

\* Unlock / RUnlock, and the return that follows it; handleEvent returns
\* after RUnlock when it read enabled = false
Release(t) ==
    /\ ~fatal
    /\ thread[t].op # ""
    /\ NextInstr(t).kind \in {"unlock", "runlock"}
    /\ IF NextInstr(t).on = "mu"
       THEN mu' = "" /\ UNCHANGED enabledMu
       ELSE IF NextInstr(t).kind = "unlock"
       THEN enabledMu' = [enabledMu EXCEPT !.writer = ""] /\ UNCHANGED mu
       ELSE enabledMu' = [enabledMu EXCEPT !.readers = @ \ {t}] /\ UNCHANGED mu
    /\ thread' = IF thread[t].leave THEN [thread EXCEPT ![t] = IdleThread]
                 ELSE Advance(t, thread[t].pc + 1, FALSE)
    /\ UNCHANGED <<fatal, lockCalls, enabled, files, debounce, lastChange>>

\* what a lookup of name in fw.files can give while another goroutine is
\* at its write of fw.files: the old map, the new map, or the runtime's
\* fatal error "concurrent map read and map write"
RacyLookups(t) ==
    {[found |-> thread[t].name \in DOMAIN files, fatal |-> FALSE]}
    \cup IF \E u \in Threads \ {t} : AtAccess(u, "write", "files")
         THEN {[found |-> TRUE, fatal |-> FALSE], [found |-> FALSE, fatal |-> TRUE]}
         ELSE {}

\* a read of a shared field and the branch taken on its value
ReadField(t) ==
    /\ ~fatal
    /\ thread[t].op # ""
    /\ NextInstr(t).kind = "read"
    /\ IF thread[t].op = "handleEvent" /\ NextInstr(t).on = "enabled"
       THEN thread' = Advance(t, thread[t].pc + 1, ~enabled) /\ UNCHANGED fatal
       ELSE IF thread[t].op = "handleEvent" /\ NextInstr(t).on = "files"
       THEN \E r \in RacyLookups(t) :
               /\ fatal' = r.fatal
               /\ thread' = IF r.found THEN Advance(t, thread[t].pc + 1, FALSE)
                            ELSE [thread EXCEPT ![t] = IdleThread]
       ELSE IF thread[t].op = "handleEvent" /\ NextInstr(t).on = "debounce"
       THEN /\ thread' =
                  IF DebounceDrops(lastChange, thread[t].name, now, debounce)
                  THEN Advance(t, thread[t].pc + 2, FALSE)
                  ELSE Advance(t, thread[t].pc + 1, FALSE)
            /\ UNCHANGED fatal
       ELSE thread' = Advance(t, thread[t].pc + 1, FALSE) /\ UNCHANGED fatal
    /\ UNCHANGED <<mu, enabledMu, lockCalls, enabled, files, debounce, lastChange>>

\* a write of a shared field
WriteField(t) ==
    /\ ~fatal
    /\ thread[t].op # ""
    /\ NextInstr(t).kind = "write"
    /\ enabled' = IF NextInstr(t).on = "enabled" THEN thread[t].flag ELSE enabled
    /\ debounce' = IF NextInstr(t).on = "debounce" THEN thread[t].dur ELSE debounce
    /\ files' = IF NextInstr(t).on = "files"
                THEN [f \in DOMAIN files \cup {thread[t].name} |->
                         IF f = thread[t].name THEN "bonus" ELSE files[f]]
                ELSE files
    /\ lastChange' = IF NextInstr(t).on = "lastChange"
                     THEN RecordChange(lastChange, thread[t].name, now)
                     ELSE lastChange
    /\ thread' = Advance(t, thread[t].pc + 1, FALSE)
    /\ UNCHANGED <<mu, enabledMu, fatal, lockCalls>>

\* --- properties of the locking

\* the lock that protects a field
LockOf(field) == IF field = "enabled" THEN "enabledMu" ELSE "mu"

\* thread t holds the lock, for reading at least
Holds(t, lock) ==
    IF lock = "mu" THEN mu = t
    ELSE enabledMu.writer = t \/ t \in enabledMu.readers

SharedFields == {"enabled", "files", "debounce", "lastChange"}

\* two goroutines are at accesses of one field, one of them a write, and
\* nothing orders the two accesses
UnsynchronisedAccess ==
    \E t, u \in Threads, f \in SharedFields :
        /\ t # u
        /\ AtAccess(t, "write", f)
        /\ AtAccess(u, "read", f) \/ AtAccess(u, "write", f)

\* C16: no interleaving of AddFile, SetDebounce, SetEnabled, GetFiles,
\* Enabled and the event-handling worker brings two goroutines to
\* unsynchronised accesses of last_change, files, debounce or enabled with
\* one of them a write, and the runtime never reports one.
SharedStateLocked == ~UnsynchronisedAccess /\ ~fatal

\* the accesses that are made under the lock of their field: all but the
\* lookup in fw.files by handleEvent
LockedExceptFilesLookup ==
    \A t \in Threads, f \in SharedFields :
        (AtAccess(t, "read", f) \/ AtAccess(t, "write", f)) =>
            \/ Holds(t, LockOf(f))
            \/ thread[t].op = "handleEvent" /\ f = "files"

\* ------------------------------------------------------------------------
\* Streaming optimize endpoint (HandleBruteForceOptimizeWS)
\* ------------------------------------------------------------------------

\* Bounds of the streaming specification: capacity of progressChan (100 in
\* the handler), iteration cap of the run, client messages after the request.
ProgressCap == 3
MaxIter == 7
MaxClientMsgs == 1

\* What the first message and the request turn out to be.
RequestKinds == {"ok", "read failed", "invalid request", "mode not found",
                 "invalid buckets", "invalid config"}

ProgressMsg(k) == [type |-> "progress", body |-> k]
ResultMsg == [type |-> "result", body |-> 0]
ErrorMsg(kind) == [type |-> "error", body |-> kind]

IsTerminal(msg) == msg.type \in {"result", "error"}

ProgressCount(msgs) == Len(SelectSeq(msgs, LAMBDA m : m.type = "progress"))

\* conn.WriteJSON: fails, writing nothing, once the client is gone.
WriteJSON(msgs, msg) == IF clientGone THEN msgs ELSE Append(msgs, msg)

\* A handler that goes on selecting after it wrote the result.
HandlerPcAfterKeepsLooping(msgType) ==
    IF msgType = "error" THEN "done" ELSE "loop"

\* The streaming loop: "return" after a result or an error message, next
\* round of the select after a progress message.
HandlerPcAfter(msgType) ==
    IF msgType \in {"result", "error"} THEN "done" ELSE "loop"

\* Non-blocking send on progressChan: the event is dropped when the buffer
\* is full.
TrySend(ch, ev) == IF Len(ch) < ProgressCap THEN Append(ch, ev) ELSE ch

StreamInit ==
    /\ hpc = "accept"
    /\ rpc = "idle"
    /\ spc = "idle"
    /\ progressChan = <<>>
    /\ progressClosed = FALSE
    /\ stopClosed = FALSE
    /\ resultChan = <<>>
    /\ errChan = <<>>
    /\ iteration = 0
    /\ outcome = ""
    /\ sent = <<>>
    /\ inbox = <<>>
    /\ clientGone = FALSE
    /\ stopAt = -1
    /\ stopReadAt = -1

\* The handler up to the streaming loop: read the request, load the table,
\* validate; an error message and return on a failure, the three channels and
\* the two goroutines otherwise.
HandlerAccept(kind) ==
    /\ hpc = "accept"
    /\ IF kind = "ok" /\ ~clientGone
       THEN /\ hpc' = "loop"
            /\ rpc' = "iterate"
            /\ spc' = "read"
            /\ UNCHANGED sent
       ELSE /\ hpc' = "done"
            /\ sent' = IF kind \in {"ok", "read failed"} THEN sent
                       ELSE WriteJSON(sent, ErrorMsg(kind))
            /\ UNCHANGED <<rpc, spc>>
    /\ UNCHANGED <<progressChan, progressClosed, stopClosed, resultChan, errChan,
                   iteration, outcome, inbox, clientGone, stopAt, stopReadAt>>

\* select case progress := <-progressChan: write it; return (running the
\* deferred close(progressChan)) when the write fails.
HandlerProgress ==
    /\ hpc = "loop"
    /\ progressChan # <<>>
    /\ progressChan' = Tail(progressChan)
    /\ sent' = WriteJSON(sent, ProgressMsg(Head(progressChan)))
    /\ hpc' = IF clientGone THEN "done" ELSE HandlerPcAfter("progress")
    /\ progressClosed' = clientGone
    /\ UNCHANGED <<rpc, spc, stopClosed, resultChan, errChan, iteration, outcome,
                   inbox, clientGone, stopAt, stopReadAt>>

\* select case result := <-resultChan: save if requested ("save failed" is
\* an error message and return), write the result, return.
HandlerResult(saveFails) ==
    /\ hpc = "loop"
    /\ resultChan # <<>>
    /\ resultChan' = Tail(resultChan)
    /\ sent' = IF saveFails THEN WriteJSON(sent, ErrorMsg("save failed"))
               ELSE WriteJSON(sent, ResultMsg)
    /\ hpc' = IF saveFails THEN HandlerPcAfter("error") ELSE HandlerPcAfter("result")
    /\ progressClosed' = (hpc' = "done")
    /\ UNCHANGED <<rpc, spc, progressChan, stopClosed, errChan, iteration, outcome,
                   inbox, clientGone, stopAt, stopReadAt>>

\* select case err := <-errChan: write the error, return.
HandlerError ==
    /\ hpc = "loop"
    /\ errChan # <<>>
    /\ errChan' = Tail(errChan)
    /\ sent' = WriteJSON(sent, ErrorMsg(Head(errChan)))
    /\ hpc' = HandlerPcAfter("error")
    /\ progressClosed' = (hpc' = "done")
    /\ UNCHANGED <<rpc, spc, progressChan, stopClosed, resultChan, iteration, outcome,
                   inbox, clientGone, stopAt, stopReadAt>>

\* The stop-reading goroutine reads one client message: close(stopChan) and
\* return on {"type":"stop"}, next read otherwise.
StopReaderRead ==
    /\ spc = "read"
    /\ hpc # "done"
    /\ inbox # <<>>
    /\ inbox' = Tail(inbox)
    /\ IF Head(inbox) = "stop"
       THEN stopClosed' = TRUE /\ spc' = "done" /\ stopReadAt' = ProgressCount(sent)
       ELSE UNCHANGED <<stopClosed, spc, stopReadAt>>
    /\ UNCHANGED <<hpc, rpc, progressChan, progressClosed, resultChan, errChan,
                   iteration, outcome, sent, clientGone, stopAt>>

\* The stop-reading goroutine: ReadMessage fails on a closed connection.
StopReaderFail ==
    /\ spc = "read"
    /\ (hpc = "done" \/ (clientGone /\ inbox = <<>>))
    /\ spc' = "done"
    /\ UNCHANGED <<hpc, rpc, progressChan, progressClosed, stopClosed, resultChan,
                   errChan, iteration, outcome, sent, inbox, clientGone, stopAt, stopReadAt>>

\* One iteration of the refiner: materialize, emit a progress event without
\* blocking, break when converged, when stop has fired or at the cap.
RefinerIterate(converged) ==
    /\ rpc = "iterate"
    /\ iteration' = iteration + 1
    /\ IF progressClosed
       THEN /\ rpc' = "panic"
            /\ UNCHANGED <<progressChan, outcome>>
       ELSE /\ progressChan' = TrySend(progressChan, iteration + 1)
            /\ IF converged THEN rpc' = "return" /\ outcome' = "result"
               ELSE IF stopClosed THEN rpc' = "return" /\ outcome' = "Cancelled"
               ELSE IF iteration + 1 >= MaxIter THEN rpc' = "return" /\ outcome' = "result"
               ELSE UNCHANGED <<rpc, outcome>>
    /\ UNCHANGED <<hpc, spc, progressClosed, stopClosed, resultChan, errChan, sent,
                   inbox, clientGone, stopAt, stopReadAt>>

\* The refiner goroutine hands over: errChan <- err, or resultChan <- result.
RefinerReturn ==
    /\ rpc = "return"
    /\ rpc' = "done"
    /\ IF outcome = "result"
       THEN resultChan' = Append(resultChan, "result") /\ UNCHANGED errChan
       ELSE errChan' = Append(errChan, outcome) /\ UNCHANGED resultChan
    /\ UNCHANGED <<hpc, spc, progressChan, progressClosed, stopClosed, iteration,
                   outcome, sent, inbox, clientGone, stopAt, stopReadAt>>

\* The client sends {"type":"stop"} or another message.
ClientSend(msg) ==
    /\ hpc # "accept"
    /\ ~clientGone
    /\ Len(inbox) < MaxClientMsgs
    /\ msg = "stop" => stopAt = -1
    /\ inbox' = Append(inbox, msg)
    /\ stopAt' = IF msg = "stop" THEN ProgressCount(sent) ELSE stopAt
    /\ UNCHANGED <<hpc, rpc, spc, progressChan, progressClosed, stopClosed, resultChan,
                   errChan, iteration, outcome, sent, clientGone, stopReadAt>>

\* The client closes the connection.
ClientDisconnect ==
    /\ ~clientGone
    /\ clientGone' = TRUE
    /\ UNCHANGED <<hpc, rpc, spc, progressChan, progressClosed, stopClosed, resultChan,
                   errChan, iteration, outcome, sent, inbox, stopAt, stopReadAt>>

\* ---- Streaming endpoint: properties ------------------------------------

\* C5: on one connection at most one terminal message (result or error) is
\* written, every progress message comes before it and nothing comes after it.
TerminalMessageIsLast ==
    \A i \in DOMAIN sent : IsTerminal(sent[i]) => i = Len(sent)

\* C5 witness: progress messages, then the result, written while progress
\* events were still buffered in the channel.
ResultSentWithProgressBuffered ==
    /\ hpc = "done"
    /\ Len(sent) >= 2
    /\ sent[Len(sent)] = ResultMsg
    /\ sent[1].type = "progress"
    /\ progressChan # <<>>

\* C6: when the client sends stop after it has received 3 progress messages,
\* the server writes at most 2 more progress messages and then ends the
\* stream with the error Cancelled, whatever is buffered in progressChan
\* (stated for the runs in which the stop fires the stop signal before a
\* fourth progress message is written, the refiner ends on the stop signal
\* and the client stays connected).
StopAfterThreeEndsWithinTwo ==
    (stopAt = 3 /\ stopReadAt = 3 /\ ~clientGone /\ outcome # "result")
    => /\ ProgressCount(sent) <= 3 + 2
       /\ hpc = "done" => sent[Len(sent)] = ErrorMsg("Cancelled")

\* C26: progressChan is closed only after the refiner goroutine has handed
\* over its result or error, so the refiner never sends on the closed
\* channel, whichever way the handler returns.
ProgressClosedAfterRefiner ==
    /\ progressClosed => rpc = "done"
    /\ rpc # "panic"

\* The returns taken after a result or an error was received do close the
\* channel after the refiner is done.
ClosedAfterTerminalMessage ==
    (progressClosed /\ sent # <<>> /\ IsTerminal(sent[Len(sent)])) => rpc = "done"

\* ------------------------------------------------------------------------
\* BucketOptimizer
\* ------------------------------------------------------------------------

\* Bound of the optimizer specification: outcomes of a table.
MaxOutcomes == 3

\* --- float64 values as exact fractions <<numerator, denominator>> in
\* --- lowest terms with a positive denominator

Abs(x) == IF x < 0 THEN -x ELSE x

RECURSIVE GCD(_, _)
GCD(a, b) == IF b = 0 THEN a ELSE GCD(b, a % b)

Rat(n, d) ==
    LET g == GCD(Abs(n), Abs(d))
        s == IF d < 0 THEN -1 ELSE 1
    IN  <<(s * n) \div g, (s * d) \div g>>

RZero == <<0, 1>>
ROne == <<1, 1>>
RInt(k) == <<k, 1>>

\* sums and comparisons go through the least common denominator
RAdd(a, b) ==
    LET g == GCD(a[2], b[2])
    IN  Rat(a[1] * (b[2] \div g) + b[1] * (a[2] \div g), (a[2] \div g) * b[2])
RNeg(a) == <<-a[1], a[2]>>
RSub(a, b) == RAdd(a, RNeg(b))
RMul(a, b) ==
    LET x == Rat(a[1], b[2])
        y == Rat(b[1], a[2])
    IN  <<x[1] * y[1], x[2] * y[2]>>
RInv(a) == Rat(a[2], a[1])
RDiv(a, b) == RMul(a, RInv(b))
RLe(a, b) ==
    LET g == GCD(a[2], b[2])
    IN  a[1] * (b[2] \div g) <= b[1] * (a[2] \div g)
RLt(a, b) == ~RLe(b, a)
RAbs(a) == <<Abs(a[1]), a[2]>>
RMin(a, b) == IF RLt(b, a) THEN b ELSE a

RECURSIVE RSum(_)
RSum(s) == IF s = <<>> THEN RZero ELSE RAdd(Head(s), RSum(Tail(s)))

\* math.Pow(p, k) for an integer exponent k
RECURSIVE Pow(_, _)
Pow(p, k) ==
    IF k = 0 THEN ROne
    ELSE IF k < 0 THEN RDiv(Pow(p, k + 1), p)
    ELSE RMul(Pow(p, k - 1), p)

\* uint64(x) of a float64 x >= 0: truncation
Uint64(a) == a[1] \div a[2]

\* math.Round(x) for x >= 0: half away from zero
Round(a) == (2 * a[1] + a[2]) \div (2 * a[2])

\* sort.Slice(sortedPayouts, ... >) over the keys of payoutMap
RECURSIVE SortPayoutsDesc(_)
SortPayoutsDesc(S) ==
    IF S = {} THEN <<>>
    ELSE LET m == CHOOSE x \in S : \A y \in S : RLe(y, x)
         IN  <<m>> \o SortPayoutsDesc(S \ {m})

\* common.BaseWeight: the weight that stands for probability 1 (scaled down)
BaseWeight == 1024

\* sumUint64(weights)
sumUint64(weights) == SumSeq(weights)

\* calculateRTPFromWeights(weights, payouts): sum(w*p) / sum(w), 0 for a
\* table of total weight 0
calculateRTPFromWeights(weights, payouts) ==
    LET total == sumUint64(weights)
    IN  IF total = 0 THEN RZero
        ELSE RDiv(RSum([i \in 1..Len(weights) |-> RMul(RInt(weights[i]), payouts[i])]),
                  RInt(total))

\* --- inputs of the optimizer specification

\* stakergs.Outcome payouts in cents
PayoutChoices == {0, 100, 200, 500}

RECURSIVE PayoutLists(_)
PayoutLists(n) ==
    IF n = 0 THEN {<<>>}
    ELSE LET shorter == PayoutLists(n - 1)
         IN  shorter \cup {Append(s, p) : s \in {t \in shorter : Len(t) = n - 1},
                                          p \in PayoutChoices}

TableOf(ps) ==
    [Cost |-> 1,
     Outcomes |-> [i \in 1..Len(ps) |-> [SimID |-> i, Weight |-> 1, Payout |-> ps[i]]]]

OptTables == {TableOf(ps) : ps \in PayoutLists(MaxOutcomes)}

Bucket(name, minCents, maxCents, type, frequency, rtpPercent, autoExponent) ==
    [Name |-> name, MinPayout |-> Rat(minCents, 100), MaxPayout |-> Rat(maxCents, 100),
     Type |-> type, Frequency |-> frequency, RTPPercent |-> rtpPercent,
     AutoExponent |-> autoExponent]

\* contiguous ranges; payout 2.00 sits on the shared edge, 5.00 on the last edge
BucketsContiguous ==
    << Bucket("small", 0, 200, "frequency", 4, 0, 0),
       Bucket("large", 200, 500, "auto", 0, 0, 1) >>
\* an overlap (1.50..2.00) and a gap (3.00..4.00, above 4.50)
BucketsOverlapGap ==
    << Bucket("low", 100, 200, "rtp_percent", 0, 50, 0),
       Bucket("mid", 150, 300, "auto", 0, 0, 2),
       Bucket("top", 400, 450, "max_win_freq", 0, 0, 0) >>
\* payout 2.00 is in no range and as far from the first as from the second;
\* the frequency bucket uses up more than the target RTP
BucketsTie ==
    << Bucket("low", 0, 100, "auto", 0, 0, 0),
       Bucket("high", 300, 500, "frequency", 2, 0, 0) >>
BucketsSingleAuto == << Bucket("all", 0, 1000, "auto", 0, 0, 0) >>
BucketsSingleOutcomeFreq == << Bucket("all", 0, 1000, "outcome_freq", 0, 0, 0) >>
BucketsNone == << >>

OptBucketLists ==
    {BucketsContiguous, BucketsOverlapGap, BucketsTie, BucketsSingleAuto,
     BucketsSingleOutcomeFreq, BucketsNone}

\* EnableVoiding / VoidedBucketIndices (0-based) / EnableAutoVoiding
VoidingChoices ==
    { [EnableVoiding |-> FALSE, VoidedBucketIndices |-> {}, EnableAutoVoiding |-> FALSE],
      [EnableVoiding |-> TRUE,  VoidedBucketIndices |-> {0}, EnableAutoVoiding |-> FALSE],
      [EnableVoiding |-> TRUE,  VoidedBucketIndices |-> {1}, EnableAutoVoiding |-> TRUE],
      [EnableVoiding |-> FALSE, VoidedBucketIndices |-> {0}, EnableAutoVoiding |-> TRUE] }

TargetChoices == {Rat(50, 100), Rat(97, 100)}
\* 0 stands for a tolerance or a minimum weight left unset
ToleranceChoices == {RZero, Rat(2, 100)}
MinWeightChoices == {0, 2}

OptConfigs ==
    { [TargetRTP |-> t, RTPTolerance |-> tol, Buckets |-> b, MinWeight |-> mw,
       EnableVoiding |-> v.EnableVoiding, VoidedBucketIndices |-> v.VoidedBucketIndices,
       EnableAutoVoiding |-> v.EnableAutoVoiding] :
         t \in TargetChoices, tol \in ToleranceChoices, b \in OptBucketLists,
         mw \in MinWeightChoices, v \in VoidingChoices }

\* NewBucketOptimizer(config), for a non-nil config
NewBucketOptimizer(config) ==
    [config EXCEPT !.MinWeight = IF @ < 1 THEN 1 ELSE @,
                   !.RTPTolerance = IF RLe(@, RZero) THEN Rat(1, 1000) ELSE @]

\* --- calculateMinAchievableRTP and autoSelectOutcomesToVoid

calculateMinAchievableRTP(payouts) ==
    IF Len(payouts) = 0 THEN RZero
    ELSE RDiv(RSum(payouts), RInt(Len(payouts)))

\* payoutMap[p].indices: the outcomes of payout p, in table order
GroupIndices(payouts, p) ==
    SelectSeq([i \in 1..Len(payouts) |-> i], LAMBDA i : payouts[i] = p)

\* append one outcome to voidedIndices / voidedOutcomes and add its rtpPerOutcome
VoidOutcome(st, idx, reason, payouts, simIDs) ==
    LET rtpPerOutcome == RDiv(payouts[idx], RInt(Len(payouts)))
    IN  [indices |-> Append(st.indices, idx),
         outcomes |-> Append(st.outcomes,
                             [SimID |-> simIDs[idx], Payout |-> payouts[idx],
                              Reason |-> reason, RTPLoss |-> rtpPerOutcome]),
         removedRTP |-> RAdd(st.removedRTP, rtpPerOutcome)]

\* inner loop of phase 1: void group.indices[i..] until enough is removed
RECURSIVE VoidDuplicates(_, _, _, _, _, _)
VoidDuplicates(group, i, st, rtpToRemove, payouts, simIDs) ==
    IF i > Len(group) \/ RLe(rtpToRemove, st.removedRTP) THEN st
    ELSE VoidDuplicates(group, i + 1,
                        VoidOutcome(st, group[i], "duplicate", payouts, simIDs),
                        rtpToRemove, payouts, simIDs)

\* phase 1: for each payout, highest first, void all but the first outcome
RECURSIVE VoidPhase1(_, _, _, _, _, _)
VoidPhase1(sorted, k, st, rtpToRemove, payouts, simIDs) ==
    IF k > Len(sorted) \/ RLe(rtpToRemove, st.removedRTP) THEN st
    ELSE LET group == GroupIndices(payouts, sorted[k])
         IN  VoidPhase1(sorted, k + 1,
                        IF Len(group) > 1
                        THEN VoidDuplicates(group, 2, st, rtpToRemove, payouts, simIDs)
                        ELSE st,
                        rtpToRemove, payouts, simIDs)

\* phase 2 without the test of removedRTP against rtpToRemove
RECURSIVE VoidPhase2NoStop(_, _, _, _, _, _)
VoidPhase2NoStop(sorted, k, st, rtpToRemove, payouts, simIDs) ==
    IF k > Len(sorted) THEN st
    ELSE LET group == GroupIndices(payouts, sorted[k])
             left == SelectSeq(group, LAMBDA i : i \notin Range(st.indices))
         IN  VoidPhase2NoStop(sorted, k + 1,
                              IF left # <<>>
                              THEN VoidOutcome(st, left[1], "high_payout", payouts, simIDs)
                              ELSE st,
                              rtpToRemove, payouts, simIDs)

\* phase 2: for each payout, highest first, void its first non-voided outcome
RECURSIVE VoidPhase2(_, _, _, _, _, _)
VoidPhase2(sorted, k, st, rtpToRemove, payouts, simIDs) ==
    IF k > Len(sorted) \/ RLe(rtpToRemove, st.removedRTP) THEN st
    ELSE LET group == GroupIndices(payouts, sorted[k])
             left == SelectSeq(group, LAMBDA i : i \notin Range(st.indices))
         IN  VoidPhase2(sorted, k + 1,
                        IF left # <<>>
                        THEN VoidOutcome(st, left[1], "high_payout", payouts, simIDs)
                        ELSE st,
                        rtpToRemove, payouts, simIDs)

autoSelectOutcomesToVoid(payouts, simIDs, targetRTP, currentMinRTP) ==
    LET none == [indices |-> <<>>, outcomes |-> <<>>, removedRTP |-> RZero]
    IN  IF RLe(currentMinRTP, targetRTP) \/ Len(payouts) = 0 THEN none
        ELSE LET rtpToRemove == RSub(currentMinRTP, targetRTP)
                 sorted == SortPayoutsDesc({payouts[i] : i \in
                               {j \in 1..Len(payouts) : RLt(RZero, payouts[j])}})
                 st1 == VoidPhase1(sorted, 1, none, rtpToRemove, payouts, simIDs)
             IN  VoidPhase2(sorted, 1, st1, rtpToRemove, payouts, simIDs)

\* --- assignOutcomesToBuckets

\* the range test of one bucket, closed at the top for all buckets
InRangeClosed(payout, config, isLast) ==
    RLe(config.MinPayout, payout) /\ RLe(payout, config.MaxPayout)

\* the range test of one bucket: [min, max), and [min, max] for the last bucket
InRange(payout, config, isLast) ==
    /\ RLe(config.MinPayout, payout)
    /\ IF isLast THEN RLe(payout, config.MaxPayout)
       ELSE RLt(payout, config.MaxPayout)

\* the first bucket from j on whose range holds the payout, 0 when none does
RECURSIVE FirstInRange(_, _, _)
FirstInRange(payout, buckets, j) ==
    IF j > Len(buckets) THEN 0
    ELSE IF InRange(payout, buckets[j], j = Len(buckets)) THEN j
    ELSE FirstInRange(payout, buckets, j + 1)

EndpointDist(payout, config) ==
    RMin(RAbs(RSub(payout, config.MinPayout)), RAbs(RSub(payout, config.MaxPayout)))

\* the closest-bucket loop; closestDist = Nil stands for math.MaxFloat64
RECURSIVE ClosestBucket(_, _, _, _, _)
ClosestBucket(payout, buckets, j, closestIdx, closestDist) ==
    IF j > Len(buckets) THEN closestIdx
    ELSE LET dist == EndpointDist(payout, buckets[j])
         IN  IF closestDist = Nil \/ RLt(dist, closestDist)
             THEN ClosestBucket(payout, buckets, j + 1, j, dist)
             ELSE ClosestBucket(payout, buckets, j + 1, closestIdx, closestDist)

\* the loop over the outcomes; index 1 of an empty assignment list is the
\* out-of-range access assignments[closestIdx]
RECURSIVE AssignFrom(_, _, _, _)
AssignFrom(payouts, i, assignments, lossIndices) ==
    IF i > Len(payouts)
    THEN [panic |-> FALSE, assignments |-> assignments, lossIndices |-> lossIndices]
    ELSE IF RLe(payouts[i], RZero)
    THEN AssignFrom(payouts, i + 1, assignments, Append(lossIndices, i))
    ELSE LET buckets == [j \in 1..Len(assignments) |-> assignments[j].config]
             first == FirstInRange(payouts[i], buckets, 1)
             target == IF first # 0 THEN first
                       ELSE ClosestBucket(payouts[i], buckets, 1, 1, Nil)
         IN  IF target > Len(assignments)
             THEN [panic |-> TRUE, assignments |-> assignments, lossIndices |-> lossIndices]
             ELSE AssignFrom(payouts, i + 1,
                             [assignments EXCEPT
                                 ![target].outcomeIndices = Append(@, i),
                                 ![target].payouts = Append(@, payouts[i])],
                             lossIndices)

assignOutcomesToBuckets(payouts, buckets) ==
    LET empty == [j \in 1..Len(buckets) |->
                     [config |-> buckets[j], outcomeIndices |-> <<>>, payouts |-> <<>>,
                      avgPayout |-> RZero, targetProb |-> RZero, outcomeProbs |-> <<>>,
                      rtpContribution |-> RZero, isAuto |-> FALSE, isVoided |-> FALSE]]
        r == AssignFrom(payouts, 1, empty, <<>>)
    IN  [r EXCEPT !.assignments =
            [j \in 1..Len(buckets) |->
                [r.assignments[j] EXCEPT !.avgPayout =
                    IF Len(r.assignments[j].payouts) > 0
                    THEN RDiv(RSum(r.assignments[j].payouts),
                              RInt(Len(r.assignments[j].payouts)))
                    ELSE RZero]]]

\* --- calculateTargetProbabilities

\* first pass over one bucket: frequency and rtp_percent targets, auto mark
FirstPass(bucket, targetRTP) ==
    IF Len(bucket.outcomeIndices) = 0 THEN bucket
    ELSE IF bucket.config.Type = "frequency"
    THEN LET tp == IF bucket.config.Frequency > 0
                   THEN Rat(1, bucket.config.Frequency) ELSE bucket.targetProb
         IN  [bucket EXCEPT !.targetProb = tp,
                            !.rtpContribution = RMul(tp, bucket.avgPayout)]
    ELSE IF bucket.config.Type = "rtp_percent"
    THEN IF RLt(RZero, bucket.avgPayout) /\ bucket.config.RTPPercent > 0
         THEN LET contribution == RMul(Rat(bucket.config.RTPPercent, 100), targetRTP)
              IN  [bucket EXCEPT !.rtpContribution = contribution,
                                 !.targetProb = RDiv(contribution, bucket.avgPayout)]
         ELSE bucket
    ELSE IF bucket.config.Type = "auto"
    THEN [bucket EXCEPT !.isAuto = TRUE]
    ELSE bucket

\* what the first pass adds to usedRTP for one bucket
UsedRTP(bucket) ==
    IF Len(bucket.outcomeIndices) = 0 THEN RZero
    ELSE IF bucket.config.Type = "frequency" THEN bucket.rtpContribution
    ELSE IF /\ bucket.config.Type = "rtp_percent"
            /\ RLt(RZero, bucket.avgPayout) /\ bucket.config.RTPPercent > 0
    THEN bucket.rtpContribution
    ELSE RZero

\* exp of an auto bucket, 1.0 by default
AutoExponentOf(bucket) ==
    IF bucket.config.AutoExponent <= 0 THEN 1 ELSE bucket.config.AutoExponent

\* second pass over one auto bucket: per-outcome probabilities
DistributeAuto(bucket, remainingRTP, sumPayout1MinusExp) ==
    LET exp == AutoExponentOf(bucket)
        probs == [j \in 1..Len(bucket.payouts) |->
                     IF RLt(RZero, bucket.payouts[j]) /\ RLt(RZero, sumPayout1MinusExp)
                     THEN RDiv(RMul(remainingRTP, Pow(bucket.payouts[j], -exp)),
                               sumPayout1MinusExp)
                     ELSE RZero]
    IN  [bucket EXCEPT
            !.outcomeProbs = probs,
            !.targetProb = RSum(probs),
            !.rtpContribution =
                RSum([j \in 1..Len(probs) |-> RMul(probs[j], bucket.payouts[j])])]

calculateTargetProbabilities(assignments, targetRTP) ==
    LET first == [j \in 1..Len(assignments) |-> FirstPass(assignments[j], targetRTP)]
        usedRTP == RSum([j \in 1..Len(first) |-> UsedRTP(first[j])])
        remainingRTP == IF RLt(RSub(targetRTP, usedRTP), RZero) THEN RZero
                        ELSE RSub(targetRTP, usedRTP)
        autoBucketIndices == {j \in 1..Len(first) :
                                 first[j].isAuto /\ Len(first[j].outcomeIndices) > 0}
        sumPayout1MinusExp ==
            RSum([j \in 1..Len(first) |->
                    IF j \in autoBucketIndices
                    THEN RSum([k \in 1..Len(first[j].payouts) |->
                                 IF RLt(RZero, first[j].payouts[k])
                                 THEN Pow(first[j].payouts[k], 1 - AutoExponentOf(first[j]))
                                 ELSE RZero])
                    ELSE RZero])
    IN  IF autoBucketIndices # {} /\ RLt(RZero, remainingRTP)
        THEN [j \in 1..Len(first) |->
                 IF j \in autoBucketIndices
                 THEN DistributeAuto(first[j], remainingRTP, sumPayout1MinusExp)
                 ELSE first[j]]
        ELSE first

\* --- calculateWeightsWithVoiding

\* the floor left out
ClampMinMissing(w, minWeight) == w

\* if w < o.config.MinWeight { w = o.config.MinWeight }
ClampMin(w, minWeight) == IF w < minWeight THEN minWeight ELSE w

\* the weights one non-skipped bucket writes, per position of outcomeIndices
\* (0 where the bucket writes 0 or nothing)
BucketWeights(bucket, voidedSet, minWeight) ==
    IF bucket.isAuto /\ Len(bucket.outcomeProbs) = Len(bucket.outcomeIndices)
    THEN [j \in 1..Len(bucket.outcomeIndices) |->
             IF bucket.outcomeIndices[j] \in voidedSet THEN 0
             ELSE ClampMin(Uint64(RMul(bucket.outcomeProbs[j], RInt(BaseWeight))),
                           minWeight)]
    ELSE LET nonVoidedCount ==
                 Cardinality({j \in 1..Len(bucket.outcomeIndices) :
                                 bucket.outcomeIndices[j] \notin voidedSet})
         IN  [j \in 1..Len(bucket.outcomeIndices) |->
                 IF nonVoidedCount = 0 \/ bucket.outcomeIndices[j] \in voidedSet THEN 0
                 ELSE ClampMin(Uint64(RMul(bucket.targetProb, RInt(BaseWeight)))
                                  \div nonVoidedCount,
                               minWeight)]

\* the loop over the buckets: weights of the win outcomes and bucketResults
RECURSIVE WinWeights(_, _, _, _, _, _)
WinWeights(assignments, b, weights, bucketResults, voidedSet, minWeight) ==
    IF b > Len(assignments) THEN [weights |-> weights, bucketResults |-> bucketResults]
    ELSE LET bucket == assignments[b]
         IN  IF Len(bucket.outcomeIndices) = 0 \/ bucket.isVoided
             THEN WinWeights(assignments, b + 1, weights, bucketResults,
                             voidedSet, minWeight)
             ELSE LET ws == BucketWeights(bucket, voidedSet, minWeight)
                      pos(i) == CHOOSE j \in 1..Len(bucket.outcomeIndices) :
                                    bucket.outcomeIndices[j] = i
                  IN  WinWeights(assignments, b + 1,
                          [i \in 1..Len(weights) |->
                              IF i \in Range(bucket.outcomeIndices) THEN ws[pos(i)]
                              ELSE weights[i]],
                          Append(bucketResults,
                              [Name |-> bucket.config.Name,
                               OutcomeCount |-> Len(bucket.outcomeIndices),
                               TargetProbability |-> bucket.targetProb,
                               ActualProbability |-> RZero,
                               TotalWeight |-> SumSeq(ws),
                               AvgPayout |-> bucket.avgPayout]),
                          voidedSet, minWeight)

\* requiredLossWeight = weightedPayoutSum / TargetRTP - totalWinWeight over
\* the outcomes that count as wins
RequiredLossWeight(weights, payouts, wins, targetRTP) ==
    RSub(RDiv(RSum([i \in 1..Len(weights) |->
                      IF i \in wins THEN RMul(RInt(weights[i]), payouts[i]) ELSE RZero]),
              targetRTP),
         RInt(SumSeq([i \in 1..Len(weights) |-> IF i \in wins THEN weights[i] ELSE 0])))

calculateWeightsWithVoiding(payouts, assignments, lossIndices, voidedOutcomeIndices, config) ==
    LET n == Len(payouts)
        voidedSet == Range(voidedOutcomeIndices)
        win == WinWeights(assignments, 1, [i \in 1..n |-> 0], <<>>, voidedSet,
                          config.MinWeight)
        zeroed == [i \in 1..n |-> IF i \in voidedSet THEN 0 ELSE win.weights[i]]
        wins == {i \in 1..n : RLt(RZero, payouts[i]) /\ zeroed[i] > 0}
        totalWinWeight == SumSeq([i \in 1..n |-> IF i \in wins THEN zeroed[i] ELSE 0])
        required == RequiredLossWeight(zeroed, payouts, wins, config.TargetRTP)
        requiredLossWeight == IF RLt(required, RInt(config.MinWeight))
                              THEN RInt(config.MinWeight) ELSE required
        lossWeightPerOutcome ==
            ClampMin(Round(RDiv(requiredLossWeight, RInt(Len(lossIndices)))),
                     config.MinWeight)
        weights == [i \in 1..n |->
                       IF i \in Range(lossIndices) THEN lossWeightPerOutcome
                       ELSE zeroed[i]]
        totalLossWeight == lossWeightPerOutcome * Len(lossIndices)
        totalWinProb == RSum([b \in 1..Len(win.bucketResults) |->
                                 win.bucketResults[b].TargetProbability])
        lossResult ==
            IF Len(lossIndices) > 0
            THEN [Name |-> "loss", OutcomeCount |-> Len(lossIndices),
                  TargetProbability |-> RSub(ROne, totalWinProb),
                  ActualProbability |->
                      Rat(totalLossWeight, totalWinWeight + totalLossWeight),
                  TotalWeight |-> totalLossWeight, AvgPayout |-> RZero]
            ELSE Nil
        totalWeight == sumUint64(weights)
    IN  [weights |-> weights,
         bucketResults |->
            [b \in 1..Len(win.bucketResults) |->
                IF win.bucketResults[b].TotalWeight > 0 /\ totalWeight > 0
                THEN [win.bucketResults[b] EXCEPT
                         !.ActualProbability = Rat(win.bucketResults[b].TotalWeight,
                                                   totalWeight)]
                ELSE win.bucketResults[b]],
         lossResult |-> lossResult]

\* --- fineTuneLossWeightWithVoiding and calculateLossResult

\* a fine-tune step that truncates the loss weight instead of rounding it
fineTuneLossWeightTruncated(weights, payouts, lossIndices, voidedOutcomeIndices, config) ==
    LET voidedSet == Range(voidedOutcomeIndices)
        wins == {i \in 1..Len(payouts) :
                    RLt(RZero, payouts[i]) /\ weights[i] > 0 /\ i \notin voidedSet}
        required == RequiredLossWeight(weights, payouts, wins, config.TargetRTP)
        requiredLossWeight == IF RLt(required, RInt(Len(lossIndices)))
                              THEN RInt(Len(lossIndices)) ELSE required
        lossWeightPerOutcome ==
            ClampMin(Uint64(RDiv(requiredLossWeight, RInt(Len(lossIndices)))),
                     config.MinWeight)
    IN  [i \in 1..Len(weights) |->
            IF i \in Range(lossIndices) THEN lossWeightPerOutcome ELSE weights[i]]

fineTuneLossWeightWithVoiding(weights, payouts, lossIndices, voidedOutcomeIndices, config) ==
    LET voidedSet == Range(voidedOutcomeIndices)
        wins == {i \in 1..Len(payouts) :
                    RLt(RZero, payouts[i]) /\ weights[i] > 0 /\ i \notin voidedSet}
        required == RequiredLossWeight(weights, payouts, wins, config.TargetRTP)
        requiredLossWeight == IF RLt(required, RInt(Len(lossIndices)))
                              THEN RInt(Len(lossIndices)) ELSE required
        lossWeightPerOutcome ==
            ClampMin(Round(RDiv(requiredLossWeight, RInt(Len(lossIndices)))),
                     config.MinWeight)
    IN  [i \in 1..Len(weights) |->
            IF i \in Range(lossIndices) THEN lossWeightPerOutcome ELSE weights[i]]

calculateLossResult(weights, payouts, lossIndices) ==
    LET totalLossWeight == SumSeq([k \in 1..Len(lossIndices) |-> weights[lossIndices[k]]])
    IN  [Name |-> "loss", OutcomeCount |-> Len(lossIndices),
         TargetProbability |-> RZero,
         ActualProbability |-> Rat(totalLossWeight, sumUint64(weights)),
         TotalWeight |-> totalLossWeight, AvgPayout |-> RZero]

\* --- OptimizeTable

\* math.Abs(finalRTP - target) <= tolerance without the absolute value
ConvergedOneSided(finalRTP, targetRTP, tolerance) ==
    RLe(RSub(finalRTP, targetRTP), tolerance)

\* math.Abs(finalRTP - o.config.TargetRTP) <= o.config.RTPTolerance
Converged(finalRTP, targetRTP, tolerance) ==
    RLe(RAbs(RSub(finalRTP, targetRTP)), tolerance)

\* the outcome indices of the buckets marked isVoided, in bucket order
RECURSIVE LegacyVoided(_, _)
LegacyVoided(marked, j) ==
    IF j > Len(marked) THEN <<>>
    ELSE (IF marked[j].isVoided THEN marked[j].outcomeIndices ELSE <<>>)
         \o LegacyVoided(marked, j + 1)

\* OptimizeTable runs in stages; s holds its local variables so far.

\* lines 368-396: payouts normalized by cost, simIDs, no voiding yet
OptimizeStart(table, config) ==
    LET n == Len(table.Outcomes)
        cost == IF table.Cost <= 0 THEN 1 ELSE table.Cost
    IN  [table |-> table, config |-> config,
         payouts |-> [i \in 1..n |-> Rat(table.Outcomes[i].Payout, 100 * cost)],
         originalWeights |-> [i \in 1..n |-> table.Outcomes[i].Weight],
         simIDs |-> [i \in 1..n |-> table.Outcomes[i].SimID],
         auto |-> [indices |-> <<>>, outcomes |-> <<>>, removedRTP |-> RZero],
         panic |-> FALSE, assignments |-> <<>>, lossIndices |-> <<>>,
         voidedBuckets |-> <<>>, voidedOutcomeIndices |-> <<>>,
         newWeights |-> <<>>, bucketResults |-> <<>>, lossResult |-> Nil,
         finalRTP |-> RZero, converged |-> FALSE, fineTuned |-> FALSE,
         calculated |-> Nil]

\* lines 398-406: auto-voiding
OptimizeAutoVoid(s) ==
    IF s.config.EnableAutoVoiding
    THEN [s EXCEPT !.auto = autoSelectOutcomesToVoid(s.payouts, s.simIDs,
                                s.config.TargetRTP, calculateMinAchievableRTP(s.payouts))]
    ELSE s

\* lines 408-418: assign the outcomes to the buckets
OptimizeAssign(s) ==
    LET assigned == assignOutcomesToBuckets(s.payouts, s.config.Buckets)
    IN  [s EXCEPT !.panic = assigned.panic,
                  !.assignments = assigned.assignments,
                  !.lossIndices = assigned.lossIndices]

\* lines 420-451: mark the legacy-voided buckets, collect the voided outcomes
OptimizeMarkVoided(s) ==
    LET voidedBucketSet == IF s.config.EnableVoiding
                           THEN s.config.VoidedBucketIndices ELSE {}
        marked == [j \in 1..Len(s.assignments) |->
                      [s.assignments[j] EXCEPT !.isVoided = (j - 1) \in voidedBucketSet]]
    IN  [s EXCEPT !.assignments = marked,
                  !.voidedBuckets = SelectSeq([j \in 1..Len(marked) |-> j - 1],
                                              LAMBDA i : marked[i + 1].isVoided),
                  !.voidedOutcomeIndices = LegacyVoided(marked, 1) \o s.auto.indices]

\* lines 453-455: target probabilities
OptimizeTargets(s) ==
    [s EXCEPT !.assignments = calculateTargetProbabilities(s.assignments,
                                                           s.config.TargetRTP)]

\* lines 457-462: weights, final RTP, converged
OptimizeWeights(s) ==
    LET calc == calculateWeightsWithVoiding(s.payouts, s.assignments, s.lossIndices,
                                            s.voidedOutcomeIndices, s.config)
        finalRTP == calculateRTPFromWeights(calc.weights, s.payouts)
    IN  [s EXCEPT !.newWeights = calc.weights,
                  !.bucketResults = calc.bucketResults,
                  !.lossResult = calc.lossResult,
                  !.finalRTP = finalRTP,
                  !.converged = Converged(finalRTP, s.config.TargetRTP,
                                          s.config.RTPTolerance)]

\* the weights, final RTP and converged flag of lines 457-462, kept next to
\* the local variables that fine-tuning overwrites
OptimizeCalculated(s) ==
    [s EXCEPT !.calculated = [weights |-> s.newWeights, finalRTP |-> s.finalRTP,
                              converged |-> s.converged]]

\* lines 464-472: fine-tune if not converged
OptimizeFineTune(s) ==
    IF ~s.converged /\ Len(s.lossIndices) > 0
    THEN LET newWeights == fineTuneLossWeightWithVoiding(s.newWeights, s.payouts,
                               s.lossIndices, s.voidedOutcomeIndices, s.config)
             finalRTP == calculateRTPFromWeights(newWeights, s.payouts)
         IN  [s EXCEPT !.newWeights = newWeights,
                       !.finalRTP = finalRTP,
                       !.converged = Converged(finalRTP, s.config.TargetRTP,
                                               s.config.RTPTolerance),
                       !.lossResult = calculateLossResult(newWeights, s.payouts,
                                                          s.lossIndices),
                       !.fineTuned = TRUE]
    ELSE s

\* lines 507-524: the returned result and, next to it, the local variables
\* the properties speak about
OptimizeReturn(s) ==
    [result |->
        [status |-> "ok",
         OriginalRTP |-> calculateRTPFromWeights(s.originalWeights, s.payouts),
         FinalRTP |-> s.finalRTP,
         TargetRTP |-> s.config.TargetRTP,
         Converged |-> s.converged,
         NewWeights |-> s.newWeights,
         BucketResults |-> s.bucketResults,
         LossResult |-> s.lossResult,
         TotalWeight |-> sumUint64(s.newWeights),
         VoidedBuckets |-> s.voidedBuckets,
         VoidedOutcomes |-> s.auto.outcomes,
         TotalVoided |-> Len(s.auto.outcomes)],
     locals |->
        [payouts |-> s.payouts,
         assignments |-> s.assignments,
         lossIndices |-> s.lossIndices,
         voidedOutcomeIndices |-> s.voidedOutcomeIndices,
         fineTuned |-> s.fineTuned,
         calculated |-> s.calculated]]

\* the stages after the assignment; an out-of-range bucket index panics
OptimizeAssigned(s) ==
    IF s.panic THEN [result |-> [status |-> "panic"], locals |-> Nil]
    ELSE OptimizeReturn(OptimizeFineTune(OptimizeCalculated(OptimizeWeights(
             OptimizeTargets(OptimizeMarkVoided(s))))))

OptimizeTable(table, config) ==
    IF Len(table.Outcomes) = 0
    THEN [result |-> [status |-> "error", err |-> "empty table"], locals |-> Nil]
    ELSE OptimizeAssigned(OptimizeAssign(OptimizeAutoVoid(OptimizeStart(table, config))))

OptInit ==
    /\ optTable \in OptTables
    /\ optConfig \in {NewBucketOptimizer(c) : c \in OptConfigs}
    /\ optResult = Nil
    /\ optLocals = Nil

\* the optimizer of the other specifications: constructed, never called
OptAtRest ==
    /\ optTable = TableOf(<<>>)
    /\ optConfig = NewBucketOptimizer(CHOOSE c \in OptConfigs : c.Buckets = BucketsNone)
    /\ optResult = Nil
    /\ optLocals = Nil

\* o.OptimizeTable(table)
OptimizeTableCall ==
    /\ optResult = Nil
    /\ \E r \in {OptimizeTable(optTable, optConfig)} :
          /\ optResult' = r.result
          /\ optLocals' = r.locals
    /\ UNCHANGED <<optTable, optConfig>>

\* --- properties of OptimizeTable

\* OptimizeTable has returned a result (no error, no panic)
OptReturned == optResult # Nil /\ optResult.status = "ok"

OutcomeIds == 1..Len(optTable.Outcomes)

\* the outcomes of the buckets voided by VoidedBucketIndices
LegacyVoidedOutcomes ==
    UNION {Range(optLocals.assignments[j].outcomeIndices) :
             j \in {k \in DOMAIN optLocals.assignments : optLocals.assignments[k].isVoided}}

\* the outcomes listed in voided_outcomes of the result
AutoVoidedOutcomes ==
    {i \in OutcomeIds : \E k \in DOMAIN optResult.VoidedOutcomes :
                           optResult.VoidedOutcomes[k].SimID = optTable.Outcomes[i].SimID}

IsVoided(i) == i \in LegacyVoidedOutcomes \cup AutoVoidedOutcomes

\* C7: in every returned result each outcome that is neither in a
\* legacy-voided bucket nor auto-voided has a weight >= min_weight >= 1, and
\* each voided outcome has weight 0.
WeightFloor ==
    OptReturned =>
        /\ optConfig.MinWeight >= 1
        /\ \A i \in OutcomeIds :
              IF IsVoided(i) THEN optResult.NewWeights[i] = 0
              ELSE optResult.NewWeights[i] >= optConfig.MinWeight

\* C7 witness: a result after the fine-tune step, with MinWeight 2, holding a
\* voided outcome (weight 0), a loss outcome, an outcome routed to its bucket
\* by distance and an outcome of an auto bucket that got no per-outcome
\* probability and sits on the floor.
WeightFloorApplied ==
    /\ OptReturned
    /\ optLocals.fineTuned
    /\ optConfig.MinWeight = 2
    /\ \E i \in OutcomeIds : IsVoided(i) /\ optResult.NewWeights[i] = 0
    /\ \E i \in OutcomeIds : optTable.Outcomes[i].Payout = 0
    /\ \E j \in DOMAIN optLocals.assignments :
          LET a == optLocals.assignments[j]
          IN  /\ a.isAuto /\ a.outcomeProbs = <<>>
              /\ \E k \in DOMAIN a.outcomeIndices :
                    /\ ~IsVoided(a.outcomeIndices[k])
                    /\ optResult.NewWeights[a.outcomeIndices[k]] = optConfig.MinWeight
    /\ \E j \in DOMAIN optLocals.assignments :
          LET a == optLocals.assignments[j]
          IN  \E k \in DOMAIN a.payouts :
                 /\ ~IsVoided(a.outcomeIndices[k])
                 /\ \/ RLt(a.payouts[k], a.config.MinPayout)
                    \/ RLt(a.config.MaxPayout, a.payouts[k])

\* the RTP of the returned weights: sum(w * payout) / sum(w), from the table
ReturnedRTP ==
    LET W == SumSeq(optResult.NewWeights)
        S == SumSeq([i \in OutcomeIds |->
                        optResult.NewWeights[i] * optTable.Outcomes[i].Payout])
    IN  IF W = 0 THEN RZero ELSE Rat(S, 100 * W)

\* C8: in every returned result final_rtp is the RTP of the returned
\* new_weights, and converged is true exactly when
\* |final_rtp - target_rtp| <= rtp_tolerance.
ConvergedIffWithinTolerance ==
    OptReturned =>
        /\ optResult.FinalRTP = ReturnedRTP
        /\ optResult.Converged <=>
              /\ RLe(RSub(ReturnedRTP, optConfig.TargetRTP), optConfig.RTPTolerance)
              /\ RLe(RSub(optConfig.TargetRTP, ReturnedRTP), optConfig.RTPTolerance)

\* C8 witness: a converged result that has voided outcomes and a final RTP
\* below the target.
ConvergedWithVoiding ==
    /\ OptReturned
    /\ optResult.Converged
    /\ \E i \in OutcomeIds : IsVoided(i)
    /\ RLt(optResult.FinalRTP, optConfig.TargetRTP)

\* the range of bucket j of the configuration holds payout p
Contains(j, p) ==
    LET c == optConfig.Buckets[j]
    IN  /\ RLe(c.MinPayout, p)
        /\ \/ RLt(p, c.MaxPayout)
           \/ j = Len(optConfig.Buckets) /\ p = c.MaxPayout

\* min(|p - min|, |p - max|) for bucket j
Distance(j, p) ==
    LET c == optConfig.Buckets[j]
        toMin == RAbs(RSub(p, c.MinPayout))
        toMax == RAbs(RSub(p, c.MaxPayout))
    IN  IF RLe(toMin, toMax) THEN toMin ELSE toMax

\* the bucket the claim names for payout p
ExpectedBucket(p) ==
    LET B == DOMAIN optConfig.Buckets
    IN  IF \E j \in B : Contains(j, p)
        THEN CHOOSE j \in B : Contains(j, p) /\ \A k \in B : Contains(k, p) => j <= k
        ELSE CHOOSE j \in B :
                \A k \in B : /\ RLe(Distance(j, p), Distance(k, p))
                             /\ Distance(k, p) = Distance(j, p) => j <= k

\* how often outcome i is listed in bucket j
TimesIn(j, i) ==
    Cardinality({k \in DOMAIN optLocals.assignments[j].outcomeIndices :
                    optLocals.assignments[j].outcomeIndices[k] = i})

\* C9: with a non-empty bucket list every outcome of payout > 0 is listed
\* once, in one bucket: the first whose range holds it (the last range
\* closed at the top), else the one of least endpoint distance, lowest index
\* on ties; every outcome of payout <= 0 is in loss_indices and in no bucket.
AssignmentCoverage ==
    (OptReturned /\ Len(optConfig.Buckets) > 0) =>
        \A i \in OutcomeIds :
            LET p == Rat(optTable.Outcomes[i].Payout, 100)
            IN  IF optTable.Outcomes[i].Payout > 0
                THEN /\ i \notin Range(optLocals.lossIndices)
                     /\ \A j \in DOMAIN optLocals.assignments :
                           TimesIn(j, i) = IF j = ExpectedBucket(p) THEN 1 ELSE 0
                ELSE /\ i \in Range(optLocals.lossIndices)
                     /\ \A j \in DOMAIN optLocals.assignments : TimesIn(j, i) = 0

\* C9 witness: a table with a loss, an outcome on the closed top edge of
\* the last range and an outcome that no range holds and that is equally
\* far from two buckets.
AssignedByDistanceTie ==
    /\ OptReturned
    /\ Len(optConfig.Buckets) > 1
    /\ \E i \in OutcomeIds : optTable.Outcomes[i].Payout = 0
    /\ \E i \in OutcomeIds :
          /\ optTable.Outcomes[i].Payout > 0
          /\ Rat(optTable.Outcomes[i].Payout, 100)
                = optConfig.Buckets[Len(optConfig.Buckets)].MaxPayout
          /\ TimesIn(Len(optConfig.Buckets), i) = 1
    /\ \E i \in OutcomeIds :
          LET p == Rat(optTable.Outcomes[i].Payout, 100)
          IN  /\ optTable.Outcomes[i].Payout > 0
              /\ \A j \in DOMAIN optConfig.Buckets : ~Contains(j, p)
              /\ Distance(1, p) = Distance(2, p)
              /\ TimesIn(1, i) = 1

\* sum of actual_probability over bucket_results plus that of loss_result
ReportedProbability ==
    RAdd(RSum([b \in DOMAIN optResult.BucketResults |->
                  optResult.BucketResults[b].ActualProbability]),
         IF optResult.LossResult = Nil THEN RZero
         ELSE optResult.LossResult.ActualProbability)

\* C10: in every returned result the actual probabilities of the bucket
\* results and of the loss result add up to exactly 1.
ProbabilitiesSumToOne == OptReturned => ReportedProbability = ROne

\* the same for the results that give some outcome a weight
ProbabilitiesSumToOneWhenWeighted ==
    (OptReturned /\ optResult.TotalWeight > 0) => ReportedProbability = ROne

\* --- properties of autoSelectOutcomesToVoid, read from the returned result

\* the winning outcomes of the table
Winners == {i \in OutcomeIds : optTable.Outcomes[i].Payout > 0}

\* sum(payouts) / n for the table (cost 1), and what has to be removed from it
TableMinRTP ==
    Rat(SumSeq([i \in OutcomeIds |-> optTable.Outcomes[i].Payout]),
        100 * Len(optTable.Outcomes))
TableRtpToRemove == RSub(TableMinRTP, optConfig.TargetRTP)

\* payout / n of outcome i
RtpPerOutcome(i) == Rat(optTable.Outcomes[i].Payout, 100 * Len(optTable.Outcomes))

\* a returned result of a call with auto-voiding on a table whose k >= 2
\* winners share one payout, with a loss outcome, and a target that voiding
\* k - 1 of the winners does not reach
SharedPayoutCase ==
    /\ OptReturned
    /\ optConfig.EnableAutoVoiding
    /\ Cardinality(Winners) >= 2
    /\ \A i, j \in Winners : optTable.Outcomes[i].Payout = optTable.Outcomes[j].Payout
    /\ \E i \in OutcomeIds : optTable.Outcomes[i].Payout = 0
    /\ \A i \in Winners :
          RLt(RMul(RInt(Cardinality(Winners) - 1), RtpPerOutcome(i)), TableRtpToRemove)

\* C11: when all k >= 2 winners share one payout and voiding k - 1 of them
\* does not cover the deficit, exactly k - 1 outcomes are voided, all with
\* reason duplicate, none with reason high_payout, and one winner stays.
SharedPayoutKeepsOneWinner ==
    SharedPayoutCase =>
        /\ Len(optResult.VoidedOutcomes) = Cardinality(Winners) - 1
        /\ \A k \in DOMAIN optResult.VoidedOutcomes :
              optResult.VoidedOutcomes[k].Reason = "duplicate"
        /\ Winners \ AutoVoidedOutcomes # {}

\* what the code does in that case: phase 2 voids the winner phase 1 kept
SharedPayoutVoidsEveryWinner ==
    SharedPayoutCase =>
        /\ Len(optResult.VoidedOutcomes) = Cardinality(Winners)
        /\ optResult.VoidedOutcomes[Len(optResult.VoidedOutcomes)].Reason = "high_payout"
        /\ Winners \subseteq AutoVoidedOutcomes

\* the RTP removed by the first k - 1 voided outcomes
VoidedRTPBefore(k) ==
    RSum([j \in 1..(k - 1) |-> optResult.VoidedOutcomes[j].RTPLoss])

\* C12: every voided outcome adds payout/n > 0 to removed_rtp; the duplicate
\* voids come before the high_payout voids; before each void removed_rtp is
\* below rtp_to_remove; voiding ends with removed_rtp >= rtp_to_remove or
\* with no winner left; and nothing is voided when the minimum achievable
\* RTP is at most the target.
VoidMonotonicity ==
    (OptReturned /\ optConfig.EnableAutoVoiding) =>
        LET vo == optResult.VoidedOutcomes
        IN  /\ \A k \in DOMAIN vo :
                  /\ RLt(RZero, vo[k].RTPLoss)
                  /\ \E i \in Winners : /\ optTable.Outcomes[i].SimID = vo[k].SimID
                                        /\ vo[k].RTPLoss = RtpPerOutcome(i)
                  /\ RLt(VoidedRTPBefore(k), VoidedRTPBefore(k + 1))
                  /\ RLt(VoidedRTPBefore(k), TableRtpToRemove)
                  /\ vo[k].Reason \in {"duplicate", "high_payout"}
            /\ \A k, l \in DOMAIN vo :
                  (k < l /\ vo[l].Reason = "duplicate") => vo[k].Reason = "duplicate"
            /\ \A k, l \in DOMAIN vo : k # l => vo[k].SimID # vo[l].SimID
            /\ RLt(VoidedRTPBefore(Len(vo) + 1), TableRtpToRemove)
                  => Winners \subseteq AutoVoidedOutcomes
            /\ RLe(TableMinRTP, optConfig.TargetRTP) => vo = <<>>

\* C12 witness: phase 1 voided a duplicate, phase 2 a high payout, and
\* voiding stopped with a winner left because enough had been removed.
VoidingStoppedInPhaseTwo ==
    /\ OptReturned
    /\ optConfig.EnableAutoVoiding
    /\ \E k \in DOMAIN optResult.VoidedOutcomes :
          optResult.VoidedOutcomes[k].Reason = "duplicate"
    /\ \E k \in DOMAIN optResult.VoidedOutcomes :
          optResult.VoidedOutcomes[k].Reason = "high_payout"
    /\ Winners \ AutoVoidedOutcomes # {}
    /\ RLe(TableRtpToRemove, VoidedRTPBefore(Len(optResult.VoidedOutcomes) + 1))

\* --- the fine-tune step of OptimizeTable

\* C25: the fine-tune step changes nothing: the returned weights, final_rtp
\* and converged are the ones calculateWeightsWithVoiding and the first
\* convergence test produced, whether or not the step ran.
FineTuneIsNoOp ==
    OptReturned =>
        /\ optResult.NewWeights = optLocals.calculated.weights
        /\ optResult.FinalRTP = optLocals.calculated.finalRTP
        /\ optResult.Converged = optLocals.calculated.converged

\* C25 witness: the step ran on a table with two loss outcomes, with
\* MinWeight 2, and left the loss weight above the floor.
FineTunedAboveFloor ==
    /\ OptReturned
    /\ optLocals.fineTuned
    /\ Len(optLocals.lossIndices) = 2
    /\ optConfig.MinWeight = 2
    /\ optResult.NewWeights[optLocals.lossIndices[1]] > optConfig.MinWeight

\* ------------------------------------------------------------------------
\* ValidateBuckets (optimizer/bucket_optimizer.go)
\* ------------------------------------------------------------------------

\* Bounds of the validation specification: buckets of a list, calls made.
MaxBuckets == 2
MaxValidations == 2

\* a BucketConfig with every field ValidateBuckets reads
ValBucket(name, minCents, maxCents, type, param, priority) ==
    [Name |-> name, MinPayout |-> Rat(minCents, 100), MaxPayout |-> Rat(maxCents, 100),
     Type |-> type,
     Frequency |-> IF type = "frequency" THEN param ELSE 0,
     RTPPercent |-> IF type = "rtp_percent" THEN param ELSE 0,
     AutoExponent |-> IF type = "auto" THEN param ELSE 0,
     MaxWinFrequency |-> IF type = "max_win_freq" THEN param ELSE 0,
     Priority |-> priority]

\* the buckets tried: every range (adjacent, equal-min, overlapping, apart,
\* negative, reversed; in cents) with a parameter inside the domain of its
\* type, and one range with the other <<type, parameter, priority>>
ValBucketChoices ==
    {ValBucket("r", r[1], r[2], p[1], p[2], 0) :
        r \in {<<0, 100>>, <<100, 200>>, <<100, 100>>, <<150, 300>>, <<-100, 0>>,
               <<200, 100>>},
        p \in {<<"frequency", 4>>, <<"rtp_percent", 100>>, <<"outcome_freq", 0>>}}
    \cup {ValBucket("p", 100, 200, p[1], p[2], p[3]) :
        p \in {<<"frequency", 0, 0>>, <<"rtp_percent", 0, 0>>, <<"rtp_percent", 101, 0>>,
               <<"auto", 0, 0>>, <<"auto", -1, 0>>, <<"max_win_freq", 5, 0>>,
               <<"max_win_freq", 0, 0>>, <<"bogus", 0, 0>>, <<"frequency", 4, 2>>,
               <<"frequency", 4, 3>>}}

RECURSIVE ValBucketLists(_)
ValBucketLists(n) ==
    IF n = 0 THEN {<<>>}
    ELSE LET shorter == ValBucketLists(n - 1)
         IN  shorter \cup {Append(s, b) : s \in {t \in shorter : Len(t) = n - 1},
                                          b \in ValBucketChoices}

\* one inner loop of the insertion sort sort.Slice runs on a slice of fewer
\* than 12 elements: s[j] moves left while less(j, j-1)
RECURSIVE SinkLeft(_, _)
SinkLeft(s, j) ==
    IF j > 1 /\ RLt(s[j].MinPayout, s[j - 1].MinPayout)
    THEN SinkLeft([s EXCEPT ![j] = s[j - 1], ![j - 1] = s[j]], j - 1)
    ELSE s

RECURSIVE InsertionSort(_, _)
InsertionSort(s, i) ==
    IF i > Len(s) THEN s ELSE InsertionSort(SinkLeft(s, i), i + 1)

\* sort.Slice(sorted, MinPayout <)
SortByMinPayout(s) == InsertionSort(s, 2)

\* the sort applied to the caller's slice itself
SortInPlace(buckets) ==
    [sorted |-> SortByMinPayout(buckets), buckets |-> SortByMinPayout(buckets)]

\* make, copy, sort.Slice: the sorted copy and the caller's slice after it
SortedCopy(buckets) ==
    [sorted |-> SortByMinPayout(buckets), buckets |-> buckets]

Err(msg) == [error |-> msg]

\* the loop over the adjacent pairs of the sorted copy
RECURSIVE GapOrOverlap(_, _)
GapOrOverlap(sorted, i) ==
    IF i >= Len(sorted) THEN Nil
    ELSE IF RLt(sorted[i].MaxPayout, sorted[i + 1].MinPayout)
    THEN Err("gap between buckets")
    ELSE IF RLt(sorted[i + 1].MinPayout, sorted[i].MaxPayout)
    THEN Err("overlap between buckets")
    ELSE GapOrOverlap(sorted, i + 1)

\* the checks of one bucket, in the order of the loop body
BucketError(bucket) ==
    IF RLt(bucket.MinPayout, RZero) THEN Err("min_payout cannot be negative")
    ELSE IF RLt(bucket.MaxPayout, bucket.MinPayout)
    THEN Err("max_payout must be >= min_payout")
    ELSE IF bucket.Type = "frequency" /\ bucket.Frequency <= 0
    THEN Err("frequency must be > 0")
    ELSE IF bucket.Type = "rtp_percent"
            /\ (bucket.RTPPercent <= 0 \/ bucket.RTPPercent > 100)
    THEN Err("rtp_percent must be between 0 and 100")
    ELSE IF bucket.Type = "auto" /\ bucket.AutoExponent < 0
    THEN Err("auto_exponent cannot be negative")
    ELSE IF bucket.Type = "max_win_freq" /\ bucket.MaxWinFrequency <= 0
    THEN Err("max_win_frequency must be > 0")
    ELSE IF bucket.Type \notin {"frequency", "rtp_percent", "auto", "max_win_freq",
                                "outcome_freq"}
    THEN Err("unknown constraint type")
    ELSE IF bucket.Priority \notin {0, 1, 2} THEN Err("invalid priority")
    ELSE Nil

\* the loop over the buckets as given
RECURSIVE FirstBucketError(_, _)
FirstBucketError(buckets, i) ==
    IF i > Len(buckets) THEN Nil
    ELSE IF BucketError(buckets[i]) # Nil THEN BucketError(buckets[i])
    ELSE FirstBucketError(buckets, i + 1)

\* ValidateBuckets(buckets): the error returned and the caller's slice
ValidateBuckets(buckets) ==
    IF Len(buckets) = 0
    THEN [err |-> Err("at least one bucket required"), buckets |-> buckets]
    ELSE [err |-> IF GapOrOverlap(SortedCopy(buckets).sorted, 1) # Nil
                  THEN GapOrOverlap(SortedCopy(buckets).sorted, 1)
                  ELSE FirstBucketError(buckets, 1),
          buckets |-> SortedCopy(buckets).buckets]

ValInit ==
    /\ valBuckets \in ValBucketLists(MaxBuckets)
    /\ valResults = <<>>

\* the validator of the other specifications: never called
ValAtRest ==
    /\ valBuckets = <<>>
    /\ valResults = <<>>

\* err := ValidateBuckets(buckets), by a caller that keeps its slice
ValidateBucketsCall ==
    /\ Len(valResults) < MaxValidations
    /\ \E r \in {ValidateBuckets(valBuckets)} :
          /\ valResults' = Append(valResults, r.err)
          /\ valBuckets' = r.buckets

\* --- properties of ValidateBuckets

\* the positions of the list in the order of min_payout, equal ones in list order
OrderByMin(b) ==
    CHOOSE f \in [1..Len(b) -> 1..Len(b)] :
        \A i, j \in 1..Len(b) :
            i < j => \/ RLt(b[f[i]].MinPayout, b[f[j]].MinPayout)
                     \/ b[f[i]].MinPayout = b[f[j]].MinPayout /\ f[i] < f[j]

\* sorted by min_payout, some bucket ends before or after the start of the next
HasGapOrOverlap(b) ==
    \E i \in 1..(Len(b) - 1) :
        b[OrderByMin(b)[i]].MaxPayout # b[OrderByMin(b)[i + 1]].MinPayout

\* the defects the specification lists
ListedDefect(b) ==
    \/ HasGapOrOverlap(b)
    \/ \E i \in DOMAIN b :
          \/ RLt(b[i].MinPayout, RZero)
          \/ RLt(b[i].MaxPayout, b[i].MinPayout)
          \/ b[i].Type = "frequency" /\ b[i].Frequency <= 0
          \/ b[i].Type = "rtp_percent" /\ (b[i].RTPPercent <= 0 \/ b[i].RTPPercent > 100)
          \/ b[i].Type = "auto" /\ b[i].AutoExponent < 0

\* the defects the code rejects besides
FurtherDefect(b) ==
    \E i \in DOMAIN b :
        \/ b[i].Type = "max_win_freq" /\ b[i].MaxWinFrequency <= 0
        \/ b[i].Priority \notin {0, 1, 2}

KnownTypes(b) ==
    \A i \in DOMAIN b :
        b[i].Type \in {"frequency", "rtp_percent", "auto", "max_win_freq", "outcome_freq"}

\* a call of ValidateBuckets has returned in this step
Validated == Len(valResults') = Len(valResults) + 1

\* C13 as stated: a list with a listed defect is rejected, a non-empty list
\* of known types without a listed defect is accepted, the list is left as
\* given and every call on it returns the same.
ValidateBucketsRejectsOnlyListed ==
    [][Validated =>
          /\ ListedDefect(valBuckets) => valResults'[Len(valResults')] # Nil
          /\ (valBuckets # <<>> /\ KnownTypes(valBuckets) /\ ~ListedDefect(valBuckets))
                => valResults'[Len(valResults')] = Nil
          /\ valBuckets' = valBuckets
          /\ \A k \in DOMAIN valResults : valResults[k] = valResults'[Len(valResults')]
      ]_vars

\* C13, amended: a list with a listed defect, or with max_win_frequency <= 0
\* on a max_win_freq bucket, or with a priority other than 0, 1, 2, is
\* rejected; a non-empty list of known types with none of these is accepted;
\* the list is left as given and every call on it returns the same.
ValidateBucketsOutcome ==
    [][Validated =>
          /\ (ListedDefect(valBuckets) \/ FurtherDefect(valBuckets))
                => valResults'[Len(valResults')] # Nil
          /\ (/\ valBuckets # <<>> /\ KnownTypes(valBuckets)
              /\ ~ListedDefect(valBuckets) /\ ~FurtherDefect(valBuckets))
                => valResults'[Len(valResults')] = Nil
          /\ valBuckets' = valBuckets
          /\ \A k \in DOMAIN valResults : valResults[k] = valResults'[Len(valResults')]
      ]_vars

\* C13 witness: a list given out of min_payout order was validated twice and
\* accepted.
UnsortedListAcceptedTwice ==
    /\ Len(valResults) = 2
    /\ valResults[2] = Nil
    /\ Len(valBuckets) = 2
    /\ RLt(valBuckets[2].MinPayout, valBuckets[1].MinPayout)

\* ------------------------------------------------------------------------
\* ModeAnalyzer.AnalyzeTable (optimizer/mode_analyzer.go)
\* ------------------------------------------------------------------------

\* stakergs.Outcome payouts in cents, table costs and target RTPs tried:
\* payout ratios of 5, 10 and 11, costs at and around 1.5, targets at and
\* around 2.0 and 10.0 and on the smallest and largest payouts
AnaPayoutChoices == {0, 100, 500, 1000, 1100}
AnaCostChoices == {RZero, ROne, Rat(3, 2), RInt(2)}
AnaTargetChoices == {Rat(1, 2), ROne, RInt(2), Rat(5, 2), RInt(10), RInt(11)}

AnaTables ==
    {[Cost |-> c, Outcomes |-> [i \in DOMAIN ps |-> [SimID |-> i, Weight |-> 1,
                                                     Payout |-> ps[i]]]] :
        c \in AnaCostChoices,
        ps \in UNION {[1..n -> AnaPayoutChoices] : n \in 0..MaxOutcomes}}

\* the smallest and the largest element of a non-empty sequence of fractions
RECURSIVE RMinOf(_)
RMinOf(s) == IF Len(s) = 1 THEN s[1] ELSE RMin(s[1], RMinOf(Tail(s)))
RECURSIVE RMaxOf(_)
RMaxOf(s) ==
    IF Len(s) = 1 THEN s[1]
    ELSE IF RLt(s[1], RMaxOf(Tail(s))) THEN RMaxOf(Tail(s)) ELSE s[1]

\* a feasibility test that leaves out the two boundary RTPs
FeasibleStrict(targetRTP, minRTP, maxRTP) ==
    RLt(minRTP, targetRTP) /\ RLt(targetRTP, maxRTP)

\* feasible := targetRTP >= minRTP && targetRTP <= maxRTP
Feasible(targetRTP, minRTP, maxRTP) ==
    RLe(minRTP, targetRTP) /\ RLe(targetRTP, maxRTP)

\* a classification that looks at the cost before the target
classifyModeCostFirst(targetRTP, payoutRange, cost) ==
    IF RLt(Rat(3, 2), cost)
    THEN IF RLt(payoutRange, RInt(10)) THEN "bonus_narrow" ELSE "bonus_wide"
    ELSE IF RLt(RInt(10), targetRTP) THEN "extreme"
    ELSE IF RLt(RInt(2), targetRTP) THEN "high_rtp"
    ELSE "standard"

classifyMode(targetRTP, payoutRange, cost) ==
    IF RLt(RInt(10), targetRTP) THEN "extreme"
    ELSE IF RLt(RInt(2), targetRTP) THEN "high_rtp"
    ELSE IF RLt(Rat(3, 2), cost)
    THEN IF RLt(payoutRange, RInt(10)) THEN "bonus_narrow" ELSE "bonus_wide"
    ELSE "standard"

\* sort.Float64s: insertion of one value into an ascending sequence
RECURSIVE InsertAscending(_, _)
InsertAscending(s, x) ==
    IF s = <<>> THEN <<x>>
    ELSE IF RLt(x, Head(s)) THEN <<x>> \o s
    ELSE <<Head(s)>> \o InsertAscending(Tail(s), x)

RECURSIVE SortFloat64s(_)
SortFloat64s(s) ==
    IF s = <<>> THEN <<>> ELSE InsertAscending(SortFloat64s(Tail(s)), Head(s))

\* generateAdaptiveBuckets: the cut points of a mode type
AdaptivePercentiles(modeType) ==
    IF modeType \in {"extreme", "high_rtp"}
    THEN <<RZero, Rat(1, 2), Rat(8, 10), Rat(95, 100), ROne>>
    ELSE IF modeType = "bonus_narrow"
    THEN <<RZero, Rat(33, 100), Rat(67, 100), ROne>>
    ELSE IF modeType = "bonus_wide"
    THEN <<RZero, Rat(1, 4), Rat(1, 2), Rat(3, 4), Rat(9, 10), ROne>>
    ELSE <<RZero, Rat(1, 4), Rat(1, 2), Rat(3, 4), Rat(9, 10), Rat(95, 100),
           Rat(99, 100), ROne>>

AdaptiveDescriptions(modeType) ==
    IF modeType \in {"extreme", "high_rtp"}
    THEN <<"low_payouts", "medium_payouts", "high_payouts", "jackpot">>
    ELSE IF modeType = "bonus_narrow"
    THEN <<"below_avg", "around_avg", "above_avg">>
    ELSE IF modeType = "bonus_wide"
    THEN <<"low", "low_medium", "medium", "high", "jackpot">>
    ELSE <<"small", "low_medium", "medium", "medium_high", "large", "huge", "jackpot">>

\* int(float64(n) * p)
CutIndex(n, p) == Uint64(RMul(RInt(n), p))

\* a bucket start left where the sorted payouts put it
GapFreeMinAsSorted(minPay, buckets) == minPay

\* if len(buckets) > 0 && minPay > buckets[len(buckets)-1].MaxPayout
\*     { minPay = buckets[len(buckets)-1].MaxPayout }
GapFreeMin(minPay, buckets) ==
    IF Len(buckets) > 0 /\ RLt(buckets[Len(buckets)].MaxPayout, minPay)
    THEN buckets[Len(buckets)].MaxPayout
    ELSE minPay

\* the recommendation made of sorted[startIdx .. endIdx-1] (indices from 0)
Recommendation(sorted, startIdx, endIdx, isLast, buckets, desc) ==
    [MinPayout |-> GapFreeMin(sorted[startIdx + 1], buckets),
     MaxPayout |-> IF isLast THEN RMul(sorted[Len(sorted)], Rat(101, 100))
                   ELSE sorted[endIdx],
     OutcomeCount |-> endIdx - startIdx,
     RTPCapacity |-> RDiv(RSum(SubSeq(sorted, startIdx + 1, endIdx)),
                          RInt(endIdx - startIdx)),
     AvgPayout |-> RDiv(RSum(SubSeq(sorted, startIdx + 1, endIdx)),
                        RInt(endIdx - startIdx)),
     Description |-> desc,
     SuggestedRTP |-> RZero]

\* the loop over the cut-point pairs, from pair i (counted from 1)
RECURSIVE AdaptiveLoop(_, _, _, _, _)
AdaptiveLoop(sorted, percentiles, descriptions, i, buckets) ==
    IF i > Len(percentiles) - 1 THEN buckets
    ELSE IF CutIndex(Len(sorted), percentiles[i])
               >= (IF CutIndex(Len(sorted), percentiles[i + 1]) > Len(sorted)
                   THEN Len(sorted) ELSE CutIndex(Len(sorted), percentiles[i + 1]))
    THEN AdaptiveLoop(sorted, percentiles, descriptions, i + 1, buckets)
    ELSE AdaptiveLoop(sorted, percentiles, descriptions, i + 1,
            Append(buckets,
                   Recommendation(sorted,
                       CutIndex(Len(sorted), percentiles[i]),
                       IF CutIndex(Len(sorted), percentiles[i + 1]) > Len(sorted)
                       THEN Len(sorted) ELSE CutIndex(Len(sorted), percentiles[i + 1]),
                       i = Len(percentiles) - 1,
                       buckets,
                       IF i <= Len(descriptions) THEN descriptions[i] ELSE "bucket")))

\* rtpCapacity * outcomeCount summed over the buckets
TotalCapacity(buckets) ==
    RSum([i \in DOMAIN buckets |->
             RMul(buckets[i].RTPCapacity, RInt(buckets[i].OutcomeCount))])

\* the target RTP distributed in proportion to the capacities, in percent
DistributeShares(buckets) ==
    IF RLt(RZero, TotalCapacity(buckets))
    THEN [i \in DOMAIN buckets |->
             [buckets[i] EXCEPT !.SuggestedRTP =
                 RMul(RDiv(RMul(buckets[i].RTPCapacity, RInt(buckets[i].OutcomeCount)),
                           TotalCapacity(buckets)),
                      RInt(100))]]
    ELSE buckets

\* generateAdaptiveBuckets(allPayouts, winPayouts, targetRTP, modeType)
generateAdaptiveBuckets(winPayouts, modeType) ==
    IF Len(winPayouts) = 0 THEN <<>>
    ELSE DistributeShares(AdaptiveLoop(SortFloat64s(winPayouts),
                                       AdaptivePercentiles(modeType),
                                       AdaptiveDescriptions(modeType), 1, <<>>))

\* the analysis of a table with winning payouts winPayouts (normalized)
Analysis(n, cost, winPayouts, targetRTP) ==
    [err |-> Nil,
     Type |-> classifyMode(targetRTP, RDiv(RMaxOf(winPayouts), RMinOf(winPayouts)), cost),
     TotalOutcomes |-> n,
     MinPayout |-> RMinOf(winPayouts),
     MaxPayout |-> RMaxOf(winPayouts),
     AvgPayout |-> RDiv(RSum(winPayouts), RInt(Len(winPayouts))),
     MinAchievableRTP |-> RMinOf(winPayouts),
     MaxAchievableRTP |-> RMaxOf(winPayouts),
     Cost |-> cost,
     IsBonusMode |-> RLt(Rat(3, 2), cost),
     RecommendedBuckets |->
        generateAdaptiveBuckets(winPayouts,
            classifyMode(targetRTP, RDiv(RMaxOf(winPayouts), RMinOf(winPayouts)), cost)),
     Feasible |-> Feasible(targetRTP, RMinOf(winPayouts), RMaxOf(winPayouts)),
     FeasibilityNote |->
        IF Feasible(targetRTP, RMinOf(winPayouts), RMaxOf(winPayouts)) THEN ""
        ELSE IF RLt(RMaxOf(winPayouts), targetRTP)
        THEN "exceeds maximum achievable"
        ELSE "is below minimum achievable",
     SuggestedRTP |->
        IF Feasible(targetRTP, RMinOf(winPayouts), RMaxOf(winPayouts)) THEN RZero
        ELSE IF RLt(RMaxOf(winPayouts), targetRTP)
        THEN RMul(RMaxOf(winPayouts), Rat(95, 100))
        ELSE RMul(RMinOf(winPayouts), Rat(105, 100))]

\* cost := table.Cost; if cost <= 0 { cost = 1.0 }
TableCost(table) == IF RLe(table.Cost, RZero) THEN ROne ELSE table.Cost

\* float64(outcome.Payout) / 100.0 / cost of every outcome
NormalizedPayouts(table) ==
    [i \in DOMAIN table.Outcomes |->
        RDiv(Rat(table.Outcomes[i].Payout, 100), TableCost(table))]

\* the normalized payouts above zero, in table order
WinPayouts(table) == SelectSeq(NormalizedPayouts(table), LAMBDA p : RLt(RZero, p))

\* AnalyzeTable(table, mode, targetRTP); the variance and the percentiles of
\* the analysis are left out
AnalyzeTable(table, targetRTP) ==
    IF Len(table.Outcomes) = 0 THEN [err |-> Err("empty table")]
    ELSE IF WinPayouts(table) = <<>> THEN [err |-> Err("no winning outcomes in table")]
    ELSE Analysis(Len(table.Outcomes), TableCost(table), WinPayouts(table), targetRTP)

AnaInit ==
    /\ anaTable \in AnaTables
    /\ anaTarget \in AnaTargetChoices
    /\ anaResult = Nil

\* the analyzer of the other specifications: never called
AnaAtRest ==
    /\ anaTable = [Cost |-> ROne, Outcomes |-> <<>>]
    /\ anaTarget = ROne
    /\ anaResult = Nil

\* a.AnalyzeTable(table, mode, targetRTP)
AnalyzeTableCall ==
    /\ anaResult = Nil
    /\ \E r \in {AnalyzeTable(anaTable, anaTarget)} : anaResult' = r
    /\ UNCHANGED <<anaTable, anaTarget>>

\* --- properties of AnalyzeTable

\* the cost the payouts are divided by
AnaCost == IF anaTable.Cost[1] <= 0 THEN ROne ELSE anaTable.Cost

\* the winning payouts of the table, normalized by cost
AnaWinners ==
    {RDiv(Rat(anaTable.Outcomes[i].Payout, 100), AnaCost) :
        i \in {k \in DOMAIN anaTable.Outcomes : anaTable.Outcomes[k].Payout > 0}}

AnaMin == CHOOSE p \in AnaWinners : \A q \in AnaWinners : RLe(p, q)
AnaMax == CHOOSE p \in AnaWinners : \A q \in AnaWinners : RLe(q, p)

\* C19: for a table with a winning outcome AnalyzeTable returns an analysis
\* and no error; feasible is true iff min <= target <= max of the winning
\* payouts normalized by cost; an infeasible analysis has a note and
\* suggests 0.95 * max when the target is above max and 1.05 * min
\* otherwise; a feasible one has no note and suggested_rtp 0.
FeasibilityReported ==
    (anaResult # Nil /\ AnaWinners # {}) =>
        /\ anaResult.err = Nil
        /\ anaResult.Feasible <=> (RLe(AnaMin, anaTarget) /\ RLe(anaTarget, AnaMax))
        /\ anaResult.Feasible =>
              anaResult.FeasibilityNote = "" /\ anaResult.SuggestedRTP = RZero
        /\ ~anaResult.Feasible =>
              /\ anaResult.FeasibilityNote # ""
              /\ anaResult.SuggestedRTP =
                    IF RLt(AnaMax, anaTarget) THEN RMul(Rat(95, 100), AnaMax)
                    ELSE RMul(Rat(105, 100), AnaMin)

\* C19 witness: an analysis of a table of cost 2 whose target equals the
\* largest normalized winning payout and is feasible.
FeasibleAtMaxPayout ==
    /\ anaResult # Nil
    /\ AnaWinners # {}
    /\ anaTable.Cost = RInt(2)
    /\ anaTarget = AnaMax
    /\ AnaMin # AnaMax
    /\ anaResult.Feasible

\* the mode type the priority rule gives
ExpectedModeType ==
    IF RLt(RInt(10), anaTarget) THEN "extreme"
    ELSE IF RLt(RInt(2), anaTarget) THEN "high_rtp"
    ELSE IF ~RLt(Rat(3, 2), AnaCost) THEN "standard"
    ELSE IF RLt(RDiv(AnaMax, AnaMin), RInt(10)) THEN "bonus_narrow"
    ELSE "bonus_wide"

\* C20: every analysis carries the mode type of the priority rule: target
\* above 10.0 extreme, else target above 2.0 high_rtp, else cost above 1.5
\* bonus_narrow when max/min < 10 and bonus_wide otherwise, else standard,
\* with strict comparisons.
ModeClassified ==
    (anaResult # Nil /\ AnaWinners # {}) => anaResult.Type = ExpectedModeType

\* C20 witness: a table of cost 2 analyzed for the target 10.0 is high_rtp.
HighTargetOverridesCost ==
    /\ anaResult # Nil
    /\ AnaWinners # {}
    /\ anaTable.Cost = RInt(2)
    /\ anaTarget = RInt(10)
    /\ anaResult.Type = "high_rtp"

\* the recommended buckets of the analysis returned
Recommended == anaResult.RecommendedBuckets

\* the number of winning outcomes of the table
WinnerCount ==
    Cardinality({k \in DOMAIN anaTable.Outcomes : anaTable.Outcomes[k].Payout > 0})

\* C24: the recommended buckets of an analysis form a chain: every bucket
\* ends where the next one starts, the first starts at the smallest winning
\* payout, the last one is always there and ends at 1.01 times the largest
\* winning payout, and the outcome counts add up to the number of winning
\* outcomes.
RecommendedBucketsChain ==
    (anaResult # Nil /\ AnaWinners # {}) =>
        /\ Len(Recommended) >= 1
        /\ \A i \in 1..(Len(Recommended) - 1) :
              Recommended[i].MaxPayout = Recommended[i + 1].MinPayout
        /\ Recommended[1].MinPayout = AnaMin
        /\ Recommended[Len(Recommended)].MaxPayout = RMul(Rat(101, 100), AnaMax)
        /\ SumSeq([i \in DOMAIN Recommended |-> Recommended[i].OutcomeCount]) = WinnerCount

\* C24 witness: three winning payouts apart from each other got three
\* buckets, the second and third pulled back to the end of the one before.
RecommendedGapClosed ==
    /\ anaResult # Nil
    /\ Cardinality(AnaWinners) = 3
    /\ Len(Recommended) = 3
    /\ Recommended[2].MinPayout = AnaMin
    /\ RLt(AnaMin, Recommended[2].MaxPayout)
    /\ RLt(Recommended[3].MinPayout, AnaMax)
    /\ anaResult.Type = "standard"

\* ------------------------------------------------------------------------
\* SuggestBuckets (optimizer/bucket_optimizer.go)
\* ------------------------------------------------------------------------

\* a BucketConfig as SuggestBuckets fills it; payouts and rtp_percent are
\* fractions
SuggestedBucket(name, min, max, type, param) ==
    [Name |-> name, MinPayout |-> min, MaxPayout |-> max, Type |-> type,
     Frequency |-> IF type = "frequency" THEN param ELSE 0,
     RTPPercent |-> IF type = "rtp_percent" THEN param ELSE RZero,
     AutoExponent |-> IF type = "auto" THEN param ELSE 0,
     MaxWinFrequency |-> IF type = "max_win_freq" THEN param ELSE 0,
     IsMaxWinBucket |-> FALSE]

\* suggestStandardBuckets: the fixed tiers, each appended when maxPayout
\* reaches `from` (the first one always)
StandardTiers ==
    << [from |-> RZero,      b |-> SuggestedBucket("sub_1x", Rat(1, 100), RInt(1), "frequency", 3)],
       [from |-> RInt(2),    b |-> SuggestedBucket("breakeven", RInt(1), RInt(2), "frequency", 5)],
       [from |-> RInt(5),    b |-> SuggestedBucket("small", RInt(2), RInt(5), "frequency", 8)],
       [from |-> RInt(10),   b |-> SuggestedBucket("low_med", RInt(5), RInt(10), "frequency", 15)],
       [from |-> RInt(25),   b |-> SuggestedBucket("medium", RInt(10), RInt(25), "frequency", 30)],
       [from |-> RInt(50),   b |-> SuggestedBucket("med_high", RInt(25), RInt(50), "frequency", 60)],
       [from |-> RInt(100),  b |-> SuggestedBucket("high", RInt(50), RInt(100), "frequency", 100)],
       [from |-> RInt(250),  b |-> SuggestedBucket("very_high", RInt(100), RInt(250), "rtp_percent", RInt(3))],
       [from |-> RInt(500),  b |-> SuggestedBucket("huge", RInt(250), RInt(500), "rtp_percent", RInt(2))],
       [from |-> RInt(1000), b |-> SuggestedBucket("massive", RInt(500), RInt(1000), "rtp_percent", RInt(1))],
       [from |-> RInt(2500), b |-> SuggestedBucket("epic", RInt(1000), RInt(2500), "rtp_percent", Rat(1, 2))] >>

\* suggestStandardBuckets: the closing jackpot bucket
StandardJackpot(maxPayout) ==
    IF RLe(RInt(2500), maxPayout)
    THEN <<SuggestedBucket("jackpot", RInt(2500), RAdd(maxPayout, ROne), "rtp_percent", Rat(3, 10))>>
    ELSE IF RLe(RInt(1000), maxPayout)
    THEN <<SuggestedBucket("jackpot", RInt(1000), RAdd(maxPayout, ROne), "rtp_percent", Rat(1, 2))>>
    ELSE <<>>

TierBuckets(tiers) == [i \in DOMAIN tiers |-> tiers[i].b]

suggestStandardBuckets(maxPayout) ==
    TierBuckets(SelectSeq(StandardTiers, LAMBDA t : RLe(t.from, maxPayout)))
        \o StandardJackpot(maxPayout)

\* suggestBonusBuckets: midHigh and highThreshold
BonusMidHigh(maxPayout, targetRTP) ==
    IF RLt(maxPayout, RMul(targetRTP, Rat(12, 10)))
    THEN RMul(maxPayout, Rat(9, 10))
    ELSE RMul(targetRTP, Rat(12, 10))

BonusHighThreshold(maxPayout, targetRTP, midHigh) ==
    IF RLt(maxPayout,
           IF RLt(RMul(targetRTP, Rat(15, 10)), midHigh)
           THEN RMul(midHigh, Rat(12, 10)) ELSE RMul(targetRTP, Rat(15, 10)))
    THEN RAdd(maxPayout, Rat(1, 100))
    ELSE IF RLt(RMul(targetRTP, Rat(15, 10)), midHigh)
    THEN RMul(midHigh, Rat(12, 10)) ELSE RMul(targetRTP, Rat(15, 10))

\* suggestBonusBuckets with midHigh and highThreshold worked out
BonusBuckets(maxPayout, targetRTP, midHigh, highThreshold) ==
    << SuggestedBucket("below_avg", RZero, RMul(targetRTP, Rat(8, 10)), "auto", 1),
       SuggestedBucket("around_avg", RMul(targetRTP, Rat(8, 10)), midHigh, "auto", 1) >>
    \o (IF RLt(midHigh, maxPayout)
        THEN <<SuggestedBucket("above_avg", midHigh, highThreshold, "rtp_percent", RInt(15))>>
             \o (IF RLt(highThreshold, maxPayout)
                 THEN <<SuggestedBucket("jackpot", highThreshold,
                                        RAdd(maxPayout, Rat(1, 100)), "rtp_percent", RInt(5))>>
                 ELSE <<>>)
        ELSE <<>>)

suggestBonusBuckets(minPayout, maxPayout, targetRTP) ==
    BonusBuckets(maxPayout, targetRTP, BonusMidHigh(maxPayout, targetRTP),
                 BonusHighThreshold(maxPayout, targetRTP, BonusMidHigh(maxPayout, targetRTP)))

\* ensureMaxWinBucket: the first bucket that contains maxPayout, 0 for none
ContainingIdx(buckets, maxPayout) ==
    IF \E i \in DOMAIN buckets :
          RLe(buckets[i].MinPayout, maxPayout) /\ RLe(maxPayout, buckets[i].MaxPayout)
    THEN CHOOSE i \in DOMAIN buckets :
            /\ RLe(buckets[i].MinPayout, maxPayout) /\ RLe(maxPayout, buckets[i].MaxPayout)
            /\ \A j \in 1..(i - 1) :
                  ~(RLe(buckets[j].MinPayout, maxPayout) /\ RLe(maxPayout, buckets[j].MaxPayout))
    ELSE 0

\* ensureMaxWinBucket: maxPayout minus the larger of 0.1% of it and 0.01
MaxWinThreshold(maxPayout) ==
    IF RLt(RMul(maxPayout, Rat(1, 1000)), Rat(1, 100))
    THEN RSub(maxPayout, Rat(1, 100))
    ELSE RSub(maxPayout, RMul(maxPayout, Rat(1, 1000)))

\* ensureMaxWinBucket: the dedicated bucket appended
MaxWinBucket(maxPayout) ==
    [SuggestedBucket("maxwin", MaxWinThreshold(maxPayout), RAdd(maxPayout, Rat(1, 100)),
                     "max_win_freq", 50000) EXCEPT !.IsMaxWinBucket = TRUE]

\* ensureMaxWinBucket with containingIdx worked out
EnsureMaxWin(buckets, maxPayout, idx) ==
    IF idx > 0 /\ buckets[idx].IsMaxWinBucket THEN buckets
    ELSE IF idx > 0 /\ RLe(MaxWinThreshold(maxPayout), buckets[idx].MinPayout)
    THEN [buckets EXCEPT ![idx].IsMaxWinBucket = TRUE, ![idx].Name = "maxwin"]
    ELSE IF idx > 0
    THEN Append([buckets EXCEPT ![idx].MaxPayout = MaxWinThreshold(maxPayout)],
                MaxWinBucket(maxPayout))
    ELSE Append(buckets, MaxWinBucket(maxPayout))

ensureMaxWinBucket(buckets, maxPayout) ==
    IF Len(buckets) = 0 \/ RLe(maxPayout, RZero) THEN buckets
    ELSE EnsureMaxWin(buckets, maxPayout, ContainingIdx(buckets, maxPayout))

\* SuggestBuckets(table, targetRTP)
SuggestBuckets(table, targetRTP) ==
    IF WinPayouts(table) = <<>> THEN <<>>
    ELSE ensureMaxWinBucket(
            IF RLt(Rat(3, 2), TableCost(table))
            THEN suggestBonusBuckets(RMinOf(WinPayouts(table)), RMaxOf(WinPayouts(table)),
                                     targetRTP)
            ELSE suggestStandardBuckets(RMaxOf(WinPayouts(table))),
            RMaxOf(WinPayouts(table)))

\* HandleBucketOptimize with a request that carries no buckets
SuggestBucketsCall ==
    /\ anaResult = Nil
    /\ \E r \in {SuggestBuckets(anaTable, anaTarget)} : anaResult' = [buckets |-> r]
    /\ UNCHANGED <<anaTable, anaTarget>>

\* --- properties of SuggestBuckets

\* the suggested buckets in min_payout order
SuggestedByMin ==
    {<<b, c>> \in Range(anaResult.buckets) \X Range(anaResult.buckets) :
        /\ RLt(b.MinPayout, c.MinPayout)
        /\ ~\E e \in Range(anaResult.buckets) :
              RLt(b.MinPayout, e.MinPayout) /\ RLt(e.MinPayout, c.MinPayout)}

\* C23: the bucket list suggested for a table with a winning outcome has
\* max >= min in every bucket and, in min_payout order, every bucket ends
\* where the next one starts (no gap, no overlap).
SuggestedBucketsValid ==
    (anaResult # Nil /\ AnaWinners # {}) =>
        /\ anaResult.buckets # <<>>
        /\ \A b \in Range(anaResult.buckets) : RLe(b.MinPayout, b.MaxPayout)
        /\ \A p \in SuggestedByMin : p[1].MaxPayout = p[2].MinPayout
        /\ \A i, j \in DOMAIN anaResult.buckets :
              (i # j /\ anaResult.buckets[i].MinPayout = anaResult.buckets[j].MinPayout)
              => anaResult.buckets[i].MaxPayout = anaResult.buckets[i].MinPayout
                    \/ anaResult.buckets[j].MaxPayout = anaResult.buckets[j].MinPayout

\* the suggested list is a chain
SuggestedChain ==
    /\ \A b \in Range(anaResult.buckets) : RLe(b.MinPayout, b.MaxPayout)
    /\ \A p \in SuggestedByMin : p[1].MaxPayout = p[2].MinPayout

\* Suggested lists that are valid exist: a standard table whose largest
\* payout lies inside a tier gets that tier split.
SuggestedTierSplit ==
    /\ anaResult # Nil
    /\ AnaWinners # {}
    /\ Len(anaResult.buckets) > 2
    /\ anaResult.buckets[Len(anaResult.buckets)].Name = "maxwin"
    /\ SuggestedChain

\* ------------------------------------------------------------------------
\* Specifications
\* ------------------------------------------------------------------------

CacheIdle == UNCHANGED cacheVars
WatcherIdle == UNCHANGED watcherVars
StreamIdle == UNCHANGED streamVars
OptIdle == UNCHANGED optVars
ValIdle == UNCHANGED valVars
StableIdle == UNCHANGED stableVars
LocksIdle == UNCHANGED lockVars
AnaIdle == UNCHANGED anaVars

InitCache == CacheInit /\ WatcherInit /\ StreamInit /\ OptAtRest /\ ValAtRest /\ StableAtRest /\ LocksAtRest /\ AnaAtRest
NextCache ==
    \/ \E m \in Modes, lut \in CacheTables, b \in CacheBucketLists :
          GenerateAsync(m, lut, b) /\ WatcherIdle /\ StreamIdle /\ OptIdle /\ ValIdle /\ StableIdle /\ LocksIdle /\ AnaIdle
    \/ \E m \in Modes, lut \in CacheTables, b \in CacheBucketLists :
          GenerateCall(m, lut, b) /\ WatcherIdle /\ StreamIdle /\ OptIdle /\ ValIdle /\ StableIdle /\ LocksIdle /\ AnaIdle
    \/ \E t \in tasks : Generate(t) /\ WatcherIdle /\ StreamIdle /\ OptIdle /\ ValIdle /\ StableIdle /\ LocksIdle /\ AnaIdle
    \/ \E t \in tasks : FinishGenerating(t) /\ WatcherIdle /\ StreamIdle /\ OptIdle /\ ValIdle /\ StableIdle /\ LocksIdle /\ AnaIdle
    \/ \E m \in Modes : Invalidate(m) /\ WatcherIdle /\ StreamIdle /\ OptIdle /\ ValIdle /\ StableIdle /\ LocksIdle /\ AnaIdle
    \/ \E m \in Modes : GetCall(m) /\ WatcherIdle /\ StreamIdle /\ OptIdle /\ ValIdle /\ StableIdle /\ LocksIdle /\ AnaIdle
SpecCache == InitCache /\ [][NextCache]_vars

\* The goroutine of a launched generation with identifier i: Generate and the
\* deferred FinishGenerating. Go schedules it, and the locks it takes are
\* held by others for the length of a map access only.
GenerateStep(i) ==
    /\ \E t \in tasks : t.id = i /\ t.async /\ Generate(t)
    /\ WatcherIdle /\ StreamIdle /\ OptIdle /\ ValIdle /\ StableIdle /\ LocksIdle /\ AnaIdle
FinishStep(i) ==
    /\ \E t \in tasks : t.id = i /\ t.async /\ FinishGenerating(t)
    /\ WatcherIdle /\ StreamIdle /\ OptIdle /\ ValIdle /\ StableIdle /\ LocksIdle /\ AnaIdle
\* Generate(t) is enabled exactly when the goroutine is at its call.
GenerateRunnable(i) == \E t \in tasks : t.id = i /\ t.async /\ t.pc = "generate"
\* Weak fairness of both steps of every goroutine; for the Generate step it
\* is written with the enabling condition spelled out.
SpecCacheFair ==
    /\ InitCache
    /\ [][NextCache]_vars
    /\ \A i \in 1..(MaxCalls + 1) :
          /\ []<>(~GenerateRunnable(i)) \/ []<><<GenerateStep(i)>>_vars
          /\ WF_vars(FinishStep(i))

InitWatcher == WatcherInit /\ CacheInit /\ StreamInit /\ OptAtRest /\ ValAtRest /\ StableAtRest /\ LocksAtRest /\ AnaAtRest
NextWatcher ==
    \/ Start /\ CacheIdle /\ StreamIdle /\ OptIdle /\ ValIdle /\ StableIdle /\ LocksIdle /\ AnaIdle
    \/ \E name \in EventNames, op \in EventOps : HandleEvent(name, op) /\ CacheIdle /\ StreamIdle /\ OptIdle /\ ValIdle /\ StableIdle /\ LocksIdle /\ AnaIdle
    \/ \E g \in reloads : WaitForFileStable(g) /\ CacheIdle /\ StreamIdle /\ OptIdle /\ ValIdle /\ StableIdle /\ LocksIdle /\ AnaIdle
    \/ \E g \in reloads, err \in BOOLEAN : Reload(g, err) /\ CacheIdle /\ StreamIdle /\ OptIdle /\ ValIdle /\ StableIdle /\ LocksIdle /\ AnaIdle
    \/ \E e \in BOOLEAN : SetEnabled(e) /\ CacheIdle /\ StreamIdle /\ OptIdle /\ ValIdle /\ StableIdle /\ LocksIdle /\ AnaIdle
    \/ \E d \in DebounceChoices \cup {DefaultDebounce} : SetDebounce(d) /\ CacheIdle /\ StreamIdle /\ OptIdle /\ ValIdle /\ StableIdle /\ LocksIdle /\ AnaIdle
    \/ Tick /\ CacheIdle /\ StreamIdle /\ OptIdle /\ ValIdle /\ StableIdle /\ LocksIdle /\ AnaIdle
    \/ Stop /\ CacheIdle /\ StreamIdle /\ OptIdle /\ ValIdle /\ StableIdle /\ LocksIdle /\ AnaIdle
    \/ RunReturn /\ CacheIdle /\ StreamIdle /\ OptIdle /\ ValIdle /\ StableIdle /\ LocksIdle /\ AnaIdle
    \/ StopReturn /\ CacheIdle /\ StreamIdle /\ OptIdle /\ ValIdle /\ StableIdle /\ LocksIdle /\ AnaIdle
SpecWatcher == InitWatcher /\ [][NextWatcher]_vars

InitStream == StreamInit /\ CacheInit /\ WatcherInit /\ OptAtRest /\ ValAtRest /\ StableAtRest /\ LocksAtRest /\ AnaAtRest
NextStream ==
    \/ \E kind \in RequestKinds : HandlerAccept(kind) /\ CacheIdle /\ WatcherIdle /\ OptIdle /\ ValIdle /\ StableIdle /\ LocksIdle /\ AnaIdle
    \/ HandlerProgress /\ CacheIdle /\ WatcherIdle /\ OptIdle /\ ValIdle /\ StableIdle /\ LocksIdle /\ AnaIdle
    \/ \E saveFails \in BOOLEAN : HandlerResult(saveFails) /\ CacheIdle /\ WatcherIdle /\ OptIdle /\ ValIdle /\ StableIdle /\ LocksIdle /\ AnaIdle
    \/ HandlerError /\ CacheIdle /\ WatcherIdle /\ OptIdle /\ ValIdle /\ StableIdle /\ LocksIdle /\ AnaIdle
    \/ StopReaderRead /\ CacheIdle /\ WatcherIdle /\ OptIdle /\ ValIdle /\ StableIdle /\ LocksIdle /\ AnaIdle
    \/ StopReaderFail /\ CacheIdle /\ WatcherIdle /\ OptIdle /\ ValIdle /\ StableIdle /\ LocksIdle /\ AnaIdle
    \/ \E converged \in BOOLEAN : RefinerIterate(converged) /\ CacheIdle /\ WatcherIdle /\ OptIdle /\ ValIdle /\ StableIdle /\ LocksIdle /\ AnaIdle
    \/ RefinerReturn /\ CacheIdle /\ WatcherIdle /\ OptIdle /\ ValIdle /\ StableIdle /\ LocksIdle /\ AnaIdle
    \/ \E msg \in {"stop", "ping"} : ClientSend(msg) /\ CacheIdle /\ WatcherIdle /\ OptIdle /\ ValIdle /\ StableIdle /\ LocksIdle /\ AnaIdle
    \/ ClientDisconnect /\ CacheIdle /\ WatcherIdle /\ OptIdle /\ ValIdle /\ StableIdle /\ LocksIdle /\ AnaIdle
SpecStream == InitStream /\ [][NextStream]_vars

InitOpt == OptInit /\ CacheInit /\ WatcherInit /\ StreamInit /\ ValAtRest /\ StableAtRest /\ LocksAtRest /\ AnaAtRest
NextOpt == OptimizeTableCall /\ CacheIdle /\ WatcherIdle /\ StreamIdle /\ ValIdle /\ StableIdle /\ LocksIdle /\ AnaIdle
SpecOpt == InitOpt /\ [][NextOpt]_vars

InitValidate == ValInit /\ CacheInit /\ WatcherInit /\ StreamInit /\ OptAtRest /\ StableAtRest /\ LocksAtRest /\ AnaAtRest
NextValidate == ValidateBucketsCall /\ CacheIdle /\ WatcherIdle /\ StreamIdle /\ OptIdle /\ StableIdle /\ LocksIdle /\ AnaIdle
SpecValidate == InitValidate /\ [][NextValidate]_vars

OthersIdle == CacheIdle /\ WatcherIdle /\ StreamIdle /\ OptIdle /\ ValIdle /\ LocksIdle /\ AnaIdle
InitStable == StableInit /\ CacheInit /\ WatcherInit /\ StreamInit /\ OptAtRest /\ ValAtRest /\ LocksAtRest /\ AnaAtRest
NextStable ==
    \/ CheckMaxWait /\ OthersIdle
    \/ \E current \in StatChoices : Stat(current) /\ OthersIdle
    \/ \E d \in SleepChoices : Sleep(d) /\ OthersIdle
    \/ OnReload /\ OthersIdle
SpecStable == InitStable /\ [][NextStable]_vars

\* The steps of the reload goroutine of event i. The Go scheduler runs every
\* runnable goroutine, and neither step waits for anything.
ReloadGoroutine(i) ==
    /\ \E g \in reloads :
          /\ g.ev = i
          /\ WaitForFileStable(g) \/ \E err \in BOOLEAN : Reload(g, err)
    /\ CacheIdle /\ StreamIdle /\ OptIdle /\ ValIdle /\ StableIdle /\ LocksIdle /\ AnaIdle
\* The watcher with its debounce left as NewFileWatcher set it.
NextReload ==
    \/ Start /\ CacheIdle /\ StreamIdle /\ OptIdle /\ ValIdle /\ StableIdle /\ LocksIdle /\ AnaIdle
    \/ \E name \in EventNames, op \in EventOps : HandleEvent(name, op) /\ CacheIdle /\ StreamIdle /\ OptIdle /\ ValIdle /\ StableIdle /\ LocksIdle /\ AnaIdle
    \/ \E i \in 1..MaxEvents : ReloadGoroutine(i)
    \/ \E e \in BOOLEAN : SetEnabled(e) /\ CacheIdle /\ StreamIdle /\ OptIdle /\ ValIdle /\ StableIdle /\ LocksIdle /\ AnaIdle
    \/ Tick /\ CacheIdle /\ StreamIdle /\ OptIdle /\ ValIdle /\ StableIdle /\ LocksIdle /\ AnaIdle
    \/ Stop /\ CacheIdle /\ StreamIdle /\ OptIdle /\ ValIdle /\ StableIdle /\ LocksIdle /\ AnaIdle
    \/ RunReturn /\ CacheIdle /\ StreamIdle /\ OptIdle /\ ValIdle /\ StableIdle /\ LocksIdle /\ AnaIdle
    \/ StopReturn /\ CacheIdle /\ StreamIdle /\ OptIdle /\ ValIdle /\ StableIdle /\ LocksIdle /\ AnaIdle
\* One reload goroutine from the inside: the steps of its wait and its call
\* of the callback. The goroutine is always runnable: os.Stat and time.Sleep
\* return.
StableGoroutine ==
    /\ \/ CheckMaxWait
       \/ \E current \in StatChoices : Stat(current)
       \/ \E d \in SleepChoices : Sleep(d)
       \/ OnReload
    /\ OthersIdle
\* The reload path in two views that share no variable: the watcher, with
\* the wait of each goroutine as one step, and one goroutine's wait in
\* detail. A behaviour follows one of the views.
NextReloadPath ==
    \/ StableAtRest /\ NextReload
    \/ WatcherInit /\ StableGoroutine
\* A step of StableGoroutine is enabled exactly until the callback returned.
StableRunnable == stablePc # "done"
\* Weak fairness of the goroutines' steps; for the loop it is written with
\* the enabling condition spelled out.
SpecReloadFair ==
    /\ InitWatcher
    /\ [][NextReloadPath]_vars
    /\ \A i \in 1..MaxEvents : WF_vars(StableAtRest /\ ReloadGoroutine(i))
    /\ \/ []<>(~(WatcherInit /\ StableRunnable))
       \/ []<><<WatcherInit /\ StableGoroutine>>_vars

\* the fields of the FileWatcher the locking specification leaves alone
WatcherRest == UNCHANGED <<started, now, reloads, evlog, reloadCalls, running, stopPc,
                           handled, failed>>
LocksOthersIdle ==
    WatcherRest /\ CacheIdle /\ StreamIdle /\ OptIdle /\ ValIdle /\ StableIdle
    /\ AnaIdle
InitLocks ==
    LocksInit /\ CacheInit /\ WatcherInit /\ StreamInit /\ OptAtRest /\ ValAtRest
    /\ StableAtRest /\ AnaAtRest
NextLocks ==
    \/ \E t \in Threads, call \in ApiCalls \cup EventCalls :
          BeginCall(t, call) /\ LocksOthersIdle
    \/ \E t \in Threads : Acquire(t) /\ LocksOthersIdle
    \/ \E t \in Threads : Release(t) /\ LocksOthersIdle
    \/ \E t \in Threads : ReadField(t) /\ LocksOthersIdle
    \/ \E t \in Threads : WriteField(t) /\ LocksOthersIdle
SpecLocks == InitLocks /\ [][NextLocks]_vars

NextPage ==
    \/ \E m \in Modes, b \in PageBucketLists :
          GenerateCall(m, LutWins, b) /\ WatcherIdle /\ StreamIdle /\ OptIdle /\ ValIdle /\ StableIdle /\ LocksIdle /\ AnaIdle
    \/ \E t \in tasks : Generate(t) /\ WatcherIdle /\ StreamIdle /\ OptIdle /\ ValIdle /\ StableIdle /\ LocksIdle /\ AnaIdle
    \/ \E m \in Modes : Invalidate(m) /\ WatcherIdle /\ StreamIdle /\ OptIdle /\ ValIdle /\ StableIdle /\ LocksIdle /\ AnaIdle
    \/ \E m \in Modes, r \in PageRanges, offset \in PageOffsets, limit \in PageLimits :
          GetBucketItemsCall(m, r[1], r[2], offset, limit) /\ WatcherIdle /\ StreamIdle /\ OptIdle /\ ValIdle /\ StableIdle /\ LocksIdle /\ AnaIdle
SpecPage == InitCache /\ [][NextPage]_vars

InitAnalyze ==
    AnaInit /\ CacheInit /\ WatcherInit /\ StreamInit /\ OptAtRest /\ ValAtRest
    /\ StableAtRest /\ LocksAtRest
NextAnalyze ==
    AnalyzeTableCall /\ CacheIdle /\ WatcherIdle /\ StreamIdle /\ OptIdle /\ ValIdle
    /\ StableIdle /\ LocksIdle
SpecAnalyze == InitAnalyze /\ [][NextAnalyze]_vars

NextSuggest ==
    SuggestBucketsCall /\ CacheIdle /\ WatcherIdle /\ StreamIdle /\ OptIdle /\ ValIdle
    /\ StableIdle /\ LocksIdle
SpecSuggest == InitAnalyze /\ [][NextSuggest]_vars

====
